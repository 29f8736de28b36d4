--------------------------- MODULE SignIn_proofs ---------------------------
(***************************************************************************)
(* What holds of the ways to get a session, for any number of users,       *)
(* requests and tokens.                                                    *)
(*                                                                         *)
(* First the types, with what the place of a request says of the values it *)
(* holds.  Then the login states and invitations: which requests one of    *)
(* them has brought how far, at any overlap.  Then what holds while        *)
(* requests do not overlap, in four parts: the counts of failures, the     *)
(* passwords, the tokens and the second factors.  In each part a request   *)
(* in flight has read something that is still true when it writes, and     *)
(* this is what an overlap would take away.  Last, what two requests that  *)
(* do overlap can take back of each other's counts.                        *)
(***************************************************************************)
EXTENDS SignIn, FiniteSetTheorems, TLAPS

(* What the place of a request says about what it holds.                   *)
Formed(q) ==
  /\ q.op \in Ops \ {"consume", "match"} => q.user \in Users
  /\ q.op \in {"consume", "match"} => q.item \in Logins
  /\ q.op \in {"acceptPassword", "closeInvite"} =>
       q.item \in Invites /\ q.via = "invite"
  /\ q.op \in {"resetPassword", "closeReset"} => q.item \in Resets
  /\ q.op \in {"activate", "open"} =>
       q.via \in Ways /\ q.item \in Invites \union Logins \union {None}
  /\ q.op = "countFailure" => q.count <= MaxFailed

UserTypes ==
  /\ user \in [Users -> User]
  /\ chosen \in [Users -> 0..Passwords]
  /\ tries \in [Users -> Nat]

TokenTypes ==
  /\ invite \in [Invites -> Token]
  /\ reset \in [Resets -> Token]
  /\ login \in [Logins -> {"absent", "open", "expired", "gone"}]
  /\ \A i \in Invites : invite[i].state = "open" => invite[i].user \in Users
  /\ \A t \in Resets : reset[t].state = "open" => reset[t].user \in Users

RequestTypes ==
  /\ req \in [Requests -> Request]
  /\ \A r \in Requests : Formed(req[r])

SessionTypes ==
  /\ sessions \subseteq [user : Users, via : Ways, password : Nat]
  /\ challenges \subseteq [user : Users, password : Nat]
  /\ opened \in [Invites \union Logins -> Nat]
  /\ floor \in [Users -> Nat]
  /\ proven \in [Users -> BOOLEAN]
  /\ overlapped \in BOOLEAN

TypeInv == UserTypes /\ TokenTypes /\ RequestTypes /\ SessionTypes

LEMMA TypeInvTypes == TypeInv => TypeOK
BY DEF TypeInv, UserTypes, TokenTypes, RequestTypes, SessionTypes, TypeOK

LEMMA IdleFormed == Idle \in Request /\ Formed(Idle)
BY NoneAssumption DEF Idle, Request, Formed, Ops

LEMMA InitTypes == Init => TypeInv
<1> SUFFICES ASSUME Init PROVE TypeInv
  OBVIOUS
<1>1. UserTypes
  BY NumbersAssumption DEF Init, UserTypes, NewUser, User, Statuses
<1>2. TokenTypes
  BY DEF Init, TokenTypes, Token
<1>3. RequestTypes
  BY IdleFormed DEF Init, RequestTypes
<1>4. SessionTypes
  BY DEF Init, SessionTypes
<1> QED BY <1>1, <1>2, <1>3, <1>4 DEF TypeInv

LEMMA Served ==
  ASSUME RequestTypes, NEW r \in Requests, NEW q \in Request, Formed(q),
         req' = [req EXCEPT ![r] = q]
  PROVE  RequestTypes'
BY DEF RequestTypes

LEMMA Written ==
  ASSUME UserTypes, NEW u \in Users, NEW row \in User, Write(u, row),
         UNCHANGED chosen
  PROVE  UserTypes'
BY DEF UserTypes, Write

LEMMA PasswordWritten ==
  ASSUME UserTypes, NEW u \in Users, NEW row \in User, WritePassword(u, row)
  PROVE  UserTypes'
<1>1. chosen[u] + 1 \in 0..Passwords
  BY NumbersAssumption DEF UserTypes, WritePassword
<1>2. [row EXCEPT !.password = chosen[u] + 1] \in User
  BY <1>1 DEF User
<1> QED BY <1>1, <1>2 DEF UserTypes, Write, WritePassword

(* A row of which one column changes.                                      *)
LEMMA Column ==
  ASSUME NEW row \in User
  PROVE  /\ \A s \in Statuses : [row EXCEPT !.status = s] \in User
         /\ \A p \in 0..Passwords : [row EXCEPT !.password = p] \in User
         /\ \A n \in 0..MaxFailed : [row EXCEPT !.failures = n] \in User
         /\ \A b \in BOOLEAN : [row EXCEPT !.until = b] \in User
         /\ \A b \in BOOLEAN : [row EXCEPT !.secret = b] \in User
         /\ \A b \in BOOLEAN : [row EXCEPT !.mfa = b] \in User
<1>1. \A s \in Statuses : [row EXCEPT !.status = s] \in User
  BY DEF User
<1>2. \A p \in 0..Passwords : [row EXCEPT !.password = p] \in User
  BY DEF User
<1>3. \A n \in 0..MaxFailed : [row EXCEPT !.failures = n] \in User
  BY DEF User
<1>4. \A b \in BOOLEAN : [row EXCEPT !.until = b] \in User
  BY DEF User
<1>5. \A b \in BOOLEAN : [row EXCEPT !.secret = b] \in User
  BY DEF User
<1>6. \A b \in BOOLEAN : [row EXCEPT !.mfa = b] \in User
  BY DEF User
<1> QED BY <1>1, <1>2, <1>3, <1>4, <1>5, <1>6

LEMMA Zero == 0 \in 0..Passwords /\ 0 \in 0..MaxFailed
BY NumbersAssumption

LEMMA UnlockedRow ==
  ASSUME NEW row \in User
  PROVE  /\ Unlocked(row) \in User
         /\ \A s \in Statuses : [Unlocked(row) EXCEPT !.status = s] \in User
<1> DEFINE a == [row EXCEPT !.status = "active"]
           b == [a EXCEPT !.failures = 0]
<1>1. a \in User
  BY Column DEF Statuses
<1> HIDE DEF a
<1>2. b \in User
  BY <1>1, Column, Zero
<1> HIDE DEF b
<1>3. [b EXCEPT !.until = FALSE] \in User
  BY <1>2, Column
<1>4. Unlocked(row) \in User
  BY <1>3 DEF Unlocked, a, b
<1> QED BY <1>4, Column

LEMMA NewRow ==
  /\ NewUser \in User
  /\ \A s \in Statuses : [NewUser EXCEPT !.status = s] \in User
<1>1. NewUser \in User
  BY NumbersAssumption DEF NewUser, User, Statuses
<1> QED BY <1>1, Column

LEMMA OpsNamed ==
  {"countFailure", "activate", "open", "writeInvited", "closeInvites",
   "createInvite", "acceptPassword", "closeInvite", "closeResets",
   "createReset", "resetPassword", "closeReset", "endSessions", "consume",
   "match", "enable", "disable"} \subseteq Ops
BY DEF Ops

(* A request is taken, and nothing else is touched.                        *)
LEMMA Taken ==
  ASSUME TypeInv, NEW r \in Requests, NEW q \in Request, Formed(q),
         Serve(r, q), overlapped' \in BOOLEAN, proven' \in [Users -> BOOLEAN],
         UNCHANGED <<user, sessions, challenges, tokens, chosen, tries, floor,
                     opened>>
  PROVE  TypeInv'
<1>1. RequestTypes'
  BY Served DEF Serve, TypeInv
<1> QED BY <1>1 DEF TypeInv, tokens, UserTypes, TokenTypes, SessionTypes

LEMMA RequestStarts ==
  ASSUME TypeInv, NEW r \in Requests, overlapped' \in BOOLEAN,
         \/ \E u \in Users :
              \/ WrongPassword(r, u)  \/ RightPassword(r, u)
              \/ ConfirmMfaSetup(r, u)  \/ StartDisableMfa(r, u)
              \/ StartInvite(r, u)  \/ StartReset(r, u)
         \/ \E c \in challenges : VerifyMfa(r, c)
         \/ \E i \in Invites : StartAccept(r, i)
         \/ \E t \in Resets : StartConfirm(r, t)
         \/ \E s \in Logins : StartCallback(r, s)
  PROVE  TypeInv'
<1>1. ASSUME NEW u \in Users, WrongPassword(r, u) PROVE TypeInv'
  <2> DEFINE n == IF user[u].failures < MaxFailed
                  THEN user[u].failures + 1 ELSE MaxFailed
             q == [Idle EXCEPT !.op = "countFailure", !.user = u, !.count = n]
  <2>1. n \in Nat /\ n <= MaxFailed
    BY NumbersAssumption DEF TypeInv, UserTypes, User
  <2> HIDE DEF n
  <2>2. "countFailure" \in Ops
    BY DEF Ops
  <2>3. q \in Request
    BY <2>1, <2>2 DEF Idle, Request
  <2>4. Formed(q)
    BY <2>1 DEF Idle, Formed
  <2>5. Serve(r, q)
    BY <1>1 DEF WrongPassword, n
  <2> HIDE DEF q
  <2> QED BY <1>1, <2>3, <2>4, <2>5, Taken
      DEF WrongPassword, TypeInv, SessionTypes, history
<1>2. ASSUME NEW u \in Users, RightPassword(r, u) PROVE TypeInv'
  <2> DEFINE q == [Idle EXCEPT !.op = "activate", !.user = u,
                     !.count = user[u].password, !.via = "password"]
  <2>1. user[u].password \in Nat
    BY DEF TypeInv, UserTypes, User
  <2>2. "activate" \in Ops
    BY DEF Ops
  <2>3. q \in Request
    BY <2>1, <2>2 DEF Idle, Request, Ways
  <2>4. Formed(q)
    BY <2>1 DEF Idle, Formed, Ways
  <2>5. Serve(r, q)
    BY <1>2 DEF RightPassword
  <2> HIDE DEF q
  <2> QED BY <1>2, <2>3, <2>4, <2>5, Taken
      DEF RightPassword, TypeInv, SessionTypes, history
<1>3. ASSUME NEW u \in Users, ConfirmMfaSetup(r, u) PROVE TypeInv'
  <2> DEFINE q == [Idle EXCEPT !.op = "enable", !.user = u]
  <2>1. "enable" \in Ops
    BY DEF Ops
  <2>2. q \in Request
    BY <2>1 DEF Idle, Request
  <2>3. Formed(q)
    BY DEF Idle, Formed
  <2>4. Serve(r, q)
    BY <1>3 DEF ConfirmMfaSetup
  <2> HIDE DEF q
  <2> QED BY <1>3, <2>2, <2>3, <2>4, Taken
      DEF ConfirmMfaSetup, TypeInv, SessionTypes, history
<1>4. ASSUME NEW u \in Users, StartDisableMfa(r, u) PROVE TypeInv'
  <2> DEFINE q == [Idle EXCEPT !.op = "disable", !.user = u]
  <2>1. "disable" \in Ops
    BY DEF Ops
  <2>2. q \in Request
    BY <2>1 DEF Idle, Request
  <2>3. Formed(q)
    BY DEF Idle, Formed
  <2>4. Serve(r, q)
    BY <1>4 DEF StartDisableMfa
  <2> HIDE DEF q
  <2> QED BY <1>4, <2>2, <2>3, <2>4, Taken
      DEF StartDisableMfa, TypeInv, SessionTypes, history
<1>5. ASSUME NEW u \in Users, StartInvite(r, u) PROVE TypeInv'
  <2> DEFINE n == IF user[u].status = "absent" THEN 0 ELSE 1
             q == [Idle EXCEPT !.op = "writeInvited", !.user = u, !.count = n]
  <2>1. n \in Nat
    OBVIOUS
  <2> HIDE DEF n
  <2>2. "writeInvited" \in Ops
    BY DEF Ops
  <2>3. q \in Request
    BY <2>1, <2>2 DEF Idle, Request
  <2>4. Formed(q)
    BY <2>1 DEF Idle, Formed
  <2>5. Serve(r, q)
    BY <1>5 DEF StartInvite, n
  <2> HIDE DEF q
  <2> QED BY <1>5, <2>3, <2>4, <2>5, Taken
      DEF StartInvite, TypeInv, SessionTypes, history
<1>6. ASSUME NEW u \in Users, StartReset(r, u) PROVE TypeInv'
  <2> DEFINE q == [Idle EXCEPT !.op = "closeResets", !.user = u]
  <2>1. "closeResets" \in Ops
    BY DEF Ops
  <2>2. q \in Request
    BY <2>1 DEF Idle, Request
  <2>3. Formed(q)
    BY DEF Idle, Formed
  <2>4. Serve(r, q)
    BY <1>6 DEF StartReset
  <2> HIDE DEF q
  <2> QED BY <1>6, <2>2, <2>3, <2>4, Taken
      DEF StartReset, TypeInv, SessionTypes, history
<1>7. ASSUME NEW c \in challenges, VerifyMfa(r, c) PROVE TypeInv'
  <2> DEFINE q == [Idle EXCEPT !.op = "activate", !.user = c.user,
                     !.count = c.password, !.via = "code"]
  <2>1. c.user \in Users /\ c.password \in Nat
    BY DEF TypeInv, SessionTypes
  <2>2. "activate" \in Ops
    BY DEF Ops
  <2>3. q \in Request
    BY <2>1, <2>2 DEF Idle, Request, Ways
  <2>4. Formed(q)
    BY <2>1 DEF Idle, Formed, Ways
  <2>5. Serve(r, q)
    BY <1>7 DEF VerifyMfa
  <2> HIDE DEF q
  <2> QED BY <1>7, <2>3, <2>4, <2>5, Taken
      DEF VerifyMfa, TypeInv, SessionTypes, history
<1>8. ASSUME NEW i \in Invites, StartAccept(r, i) PROVE TypeInv'
  <2> DEFINE q == [Idle EXCEPT !.op = "acceptPassword", !.via = "invite",
                     !.user = invite[i].user, !.item = i]
  <2>1. invite[i].user \in Users
    BY <1>8 DEF StartAccept, TypeInv, TokenTypes
  <2>2. "acceptPassword" \in Ops
    BY DEF Ops
  <2>3. q \in Request
    BY <2>1, <2>2 DEF Idle, Request, Ways
  <2>4. Formed(q)
    BY <2>1 DEF Idle, Formed, Ways
  <2>5. Serve(r, q)
    BY <1>8 DEF StartAccept
  <2> HIDE DEF q
  <2> QED BY <1>8, <2>3, <2>4, <2>5, Taken
      DEF StartAccept, TypeInv, SessionTypes, history
<1>9. ASSUME NEW t \in Resets, StartConfirm(r, t) PROVE TypeInv'
  <2> DEFINE q == [Idle EXCEPT !.op = "resetPassword", !.user = reset[t].user,
                     !.item = t]
  <2>1. reset[t].user \in Users
    BY <1>9 DEF StartConfirm, TypeInv, TokenTypes
  <2>2. "resetPassword" \in Ops
    BY DEF Ops
  <2>3. q \in Request
    BY <2>1, <2>2 DEF Idle, Request
  <2>4. Formed(q)
    BY <2>1 DEF Idle, Formed
  <2>5. Serve(r, q)
    BY <1>9 DEF StartConfirm
  <2> HIDE DEF q
  <2> QED BY <1>9, <2>3, <2>4, <2>5, Taken
      DEF StartConfirm, TypeInv, SessionTypes, history
<1>10. ASSUME NEW s \in Logins, StartCallback(r, s) PROVE TypeInv'
  <2> DEFINE q == [Idle EXCEPT !.op = "consume", !.item = s]
  <2>1. "consume" \in Ops
    BY DEF Ops
  <2>2. q \in Request
    BY <2>1 DEF Idle, Request
  <2>3. Formed(q)
    BY DEF Idle, Formed
  <2>4. Serve(r, q)
    BY <1>10 DEF StartCallback
  <2> HIDE DEF q
  <2> QED BY <1>10, <2>2, <2>3, <2>4, Taken
      DEF StartCallback, TypeInv, SessionTypes, history
<1> QED
  BY <1>1, <1>2, <1>3, <1>4, <1>5, <1>6, <1>7, <1>8, <1>9, <1>10

(* A write to the row of a user, or a login state that is made.            *)
LEMMA RowStarts ==
  ASSUME TypeInv, NEW r \in Requests, overlapped' \in BOOLEAN,
         \/ \E u \in Users :
              \/ Challenge(r, u)  \/ StartMfaSetup(r, u)  \/ CreateUser(r, u)
              \/ Reactivate(r, u)  \/ Deactivate(r, u)
              \/ \E s \in Statuses \ {"absent"} :
                   UpdateStatus(r, u, s) \/ UpdatePassword(r, u, s)
              \/ \E s \in {"active", "locked"} : Provision(r, u, s)
         \/ \E s \in Logins : StartLogin(r, s)
  PROVE  TypeInv'
<1> USE DEF TypeInv, tokens, history
<1>1. ASSUME NEW u \in Users, Challenge(r, u) PROVE TypeInv'
  BY <1>1
  DEF Challenge, UserTypes, User, TokenTypes, RequestTypes, SessionTypes
<1>2. ASSUME NEW u \in Users, StartMfaSetup(r, u) PROVE TypeInv'
  <2> DEFINE a == [user[u] EXCEPT !.secret = TRUE]
  <2>1. a \in User
    BY Column DEF UserTypes
  <2> HIDE DEF a
  <2>2. [a EXCEPT !.mfa = FALSE] \in User
    BY <2>1, Column
  <2>3. user' = [user EXCEPT ![u] = [a EXCEPT !.mfa = FALSE]]
    BY <1>2 DEF StartMfaSetup, UserTypes, a
  <2>4. UserTypes'
    BY <1>2, <2>2, <2>3 DEF StartMfaSetup, UserTypes
  <2> QED BY <1>2, <2>4 DEF StartMfaSetup, TokenTypes, RequestTypes, SessionTypes
<1>3. ASSUME NEW u \in Users, CreateUser(r, u) PROVE TypeInv'
  <2>1. UserTypes'
    BY <1>3, NewRow, PasswordWritten DEF CreateUser, Statuses
  <2> QED BY <1>3, <2>1 DEF CreateUser, TokenTypes, RequestTypes, SessionTypes
<1>4. ASSUME NEW u \in Users, Reactivate(r, u) PROVE TypeInv'
  <2>1. UserTypes'
    BY <1>4, UnlockedRow, Written DEF Reactivate, UserTypes
  <2> QED BY <1>4, <2>1 DEF Reactivate, TokenTypes, RequestTypes, SessionTypes
<1>5. ASSUME NEW u \in Users, NEW s \in Statuses, UpdateStatus(r, u, s)
      PROVE  TypeInv'
  <2>1. UserTypes'
    BY <1>5, Column, Written DEF UpdateStatus, UserTypes
  <2> QED
    BY <1>5, <2>1 DEF UpdateStatus, TokenTypes, RequestTypes, SessionTypes
<1>6. ASSUME NEW u \in Users, NEW s \in Statuses, UpdatePassword(r, u, s)
      PROVE  TypeInv'
  <2>1. UserTypes'
    BY <1>6, UnlockedRow, PasswordWritten DEF UpdatePassword, UserTypes
  <2> QED
    BY <1>6, <2>1 DEF UpdatePassword, TokenTypes, RequestTypes, SessionTypes
<1>7. ASSUME NEW u \in Users, NEW s \in Statuses, Provision(r, u, s)
      PROVE  TypeInv'
  <2>1. UserTypes'
    BY <1>7, NewRow, Written DEF Provision, UserTypes
  <2> QED BY <1>7, <2>1 DEF Provision, TokenTypes, RequestTypes, SessionTypes
<1>8. ASSUME NEW s \in Logins, StartLogin(r, s) PROVE TypeInv'
  BY <1>8 DEF StartLogin, UserTypes, TokenTypes, RequestTypes, SessionTypes
<1> QED
  BY <1>1, <1>2, <1>3, <1>4, <1>5, <1>6, <1>7, <1>8 DEF Deactivate, Statuses

LEMMA Continued ==
  ASSUME RequestTypes, NEW r \in Requests, NEW o \in Ops, Then(r, o),
         Formed([req[r] EXCEPT !.op = o])
  PROVE  RequestTypes'
<1>1. [req[r] EXCEPT !.op = o] \in Request
  BY DEF RequestTypes, Request
<1> QED BY <1>1, Served DEF Then

LEMMA Finished ==
  ASSUME RequestTypes, NEW r \in Requests, Finish(r)
  PROVE  RequestTypes'
BY IdleFormed, Served DEF Finish

LEMMA Closed ==
  ASSUME TypeInv, NEW u \in Users
  PROVE  /\ invite' = Close(invite, u) /\ UNCHANGED <<reset, login>>
            => TokenTypes'
         /\ reset' = Close(reset, u) /\ UNCHANGED <<invite, login>>
            => TokenTypes'
<1>1. ASSUME invite' = Close(invite, u), UNCHANGED <<reset, login>>
      PROVE  TokenTypes'
  BY <1>1 DEF TypeInv, TokenTypes, Close, Token
<1>2. ASSUME reset' = Close(reset, u), UNCHANGED <<invite, login>>
      PROVE  TokenTypes'
  BY <1>2 DEF TypeInv, TokenTypes, Close, Token
<1> QED BY <1>1, <1>2

LEMMA StepTypes ==
  ASSUME TypeInv, NEW r \in Requests, Step(r), UNCHANGED overlapped
  PROVE  TypeInv'
<1> DEFINE q == req[r]
<1> USE DEF TypeInv, tokens, history
<1>0. q \in Request /\ Formed(q)
  BY DEF RequestTypes
<1>1. CASE CountFailure(r)
  <2> DEFINE a == [user[q.user] EXCEPT !.failures = q.count]
             b == [a EXCEPT !.until = (q.count = MaxFailed)]
  <2>1. q.user \in Users /\ q.count \in 0..MaxFailed
    BY <1>0, <1>1, NumbersAssumption
    DEF CountFailure, Pending, Formed, Ops, Request
  <2>2. a \in User
    BY <2>1, Column DEF UserTypes
  <2> HIDE DEF a
  <2>3. b \in User /\ b.status \in Statuses
    BY <2>2, Column DEF User
  <2> HIDE DEF b
  <2>4. [b EXCEPT !.status = IF q.count = MaxFailed THEN "locked" ELSE @]
          \in User
    BY <2>3, Column DEF Statuses
  <2>5. user' = [user EXCEPT ![q.user] =
                   [b EXCEPT !.status = IF q.count = MaxFailed
                                        THEN "locked" ELSE @]]
    BY <1>1, <2>1 DEF CountFailure, UserTypes, a, b
  <2>6. UserTypes'
    BY <1>1, <2>1, <2>4, <2>5 DEF CountFailure, UserTypes
  <2>7. RequestTypes'
    BY <1>1, Finished DEF CountFailure
  <2> QED BY <1>1, <2>6, <2>7 DEF CountFailure, TokenTypes, SessionTypes
<1>2. CASE Activate(r)
  <2>1. q.user \in Users /\ "open" \in Ops
    BY <1>0, <1>2 DEF Activate, Pending, Formed, Ops
  <2>2. UserTypes'
    BY <1>2, <2>1, UnlockedRow, Written DEF Activate, UserTypes
  <2>3. Formed([q EXCEPT !.op = "open"])
    BY <1>0, <1>2, <2>1 DEF Activate, Pending, Formed, Request
  <2>4. RequestTypes'
    BY <1>2, <2>1, <2>3, Continued DEF Activate
  <2> QED BY <1>2, <2>2, <2>4 DEF Activate, TokenTypes, SessionTypes
<1>3. CASE OpenSession(r)
  <2>1. /\ q.user \in Users /\ q.via \in Ways /\ q.count \in Nat
        /\ q.item \in Invites \union Logins \union {None}
    BY <1>0, <1>3 DEF OpenSession, Pending, Formed, Ops, Request
  <2>2. SessionTypes'
    BY <1>3, <2>1 DEF OpenSession, SessionTypes
  <2>3. RequestTypes'
    BY <1>3, Finished DEF OpenSession
  <2> QED BY <1>3, <2>2, <2>3 DEF OpenSession, TokenTypes, UserTypes
<1>4. CASE EnableMfa(r)
  <2>1. UserTypes'
    BY <1>4, Column DEF EnableMfa, UserTypes
  <2>2. RequestTypes'
    BY <1>4, Finished DEF EnableMfa
  <2> QED BY <1>4, <2>1, <2>2 DEF EnableMfa, TokenTypes, SessionTypes
<1>5. CASE DisableMfa(r)
  <2> DEFINE a == [user[q.user] EXCEPT !.mfa = FALSE]
  <2>1. q.user \in Users
    BY <1>0, <1>5 DEF DisableMfa, Pending, Formed, Ops
  <2>2. a \in User
    BY <2>1, Column DEF UserTypes
  <2> HIDE DEF a
  <2>3. [a EXCEPT !.secret = FALSE] \in User
    BY <2>2, Column
  <2>4. user' = [user EXCEPT ![q.user] = [a EXCEPT !.secret = FALSE]]
    BY <1>5, <2>1 DEF DisableMfa, UserTypes, a
  <2>5. UserTypes'
    BY <1>5, <2>1, <2>3, <2>4 DEF DisableMfa, UserTypes
  <2>6. RequestTypes'
    BY <1>5, Finished DEF DisableMfa
  <2> QED BY <1>5, <2>5, <2>6 DEF DisableMfa, TokenTypes, SessionTypes
<1>6. CASE WriteInvited(r)
  <2> DEFINE a == [user[q.user] EXCEPT !.status = "invited"]
  <2>1. q.user \in Users /\ "closeInvites" \in Ops
    BY <1>0, <1>6 DEF WriteInvited, Pending, Formed, Ops
  <2>2. a \in User
    BY <2>1, Column DEF UserTypes, Statuses
  <2>3. [a EXCEPT !.password = 0] \in User
    BY <2>2, Column, Zero
  <2>4. Formed([q EXCEPT !.op = "closeInvites"])
    BY <1>0, <2>1 DEF Formed, Request
  <2>5. CASE q.count = 0 /\ user[q.user].status # "absent"
    <3>1. RequestTypes' /\ UNCHANGED <<user, tries>>
      BY <1>6, <2>5, Finished DEF WriteInvited
    <3> QED BY <1>6, <3>1 DEF WriteInvited, UserTypes, TokenTypes, SessionTypes
  <2>6. CASE ~(q.count = 0 /\ user[q.user].status # "absent")
    <3>1. RequestTypes'
      BY <1>6, <2>1, <2>4, <2>6, Continued DEF WriteInvited
    <3>2. UserTypes'
      BY <1>6, <2>1, <2>3, <2>6, Written DEF WriteInvited
    <3> QED BY <1>6, <3>1, <3>2 DEF WriteInvited, TokenTypes, SessionTypes
  <2> QED BY <2>5, <2>6
<1>7. CASE CloseInvites(r)
  <2>1. q.user \in Users /\ "createInvite" \in Ops
    BY <1>0, <1>7 DEF CloseInvites, Pending, Formed, Ops
  <2>2. Formed([q EXCEPT !.op = "createInvite"])
    BY <1>0, <2>1 DEF Formed, Request
  <2>3. RequestTypes' /\ TokenTypes'
    BY <1>7, <2>1, <2>2, Continued, Closed DEF CloseInvites
  <2> QED BY <1>7, <2>3 DEF CloseInvites, UserTypes, SessionTypes
<1>8. CASE CreateInvite(r)
  <2>1. q.user \in Users
    BY <1>0, <1>8 DEF CreateInvite, Pending, Formed, Ops
  <2>2. RequestTypes' /\ TokenTypes'
    BY <1>8, <2>1, Finished DEF CreateInvite, TokenTypes, Token
  <2> QED BY <1>8, <2>2 DEF CreateInvite, UserTypes, SessionTypes
<1>9. CASE CloseInvite(r)
  <2>1. /\ q.user \in Users /\ q.item \in Invites /\ q.via = "invite"
        /\ "activate" \in Ops
    BY <1>0, <1>9 DEF CloseInvite, Pending, Formed, Ops
  <2>2. Formed([q EXCEPT !.op = "activate"])
    BY <1>0, <2>1 DEF Formed, Request, Ways
  <2>3. RequestTypes'
    BY <1>9, <2>1, <2>2, Continued DEF CloseInvite
  <2>4. TokenTypes'
    BY <1>9, <2>1 DEF CloseInvite, TokenTypes, Token
  <2> QED BY <1>9, <2>3, <2>4 DEF CloseInvite, UserTypes, SessionTypes
<1>10. CASE CloseResets(r)
  <2>1. q.user \in Users /\ "createReset" \in Ops
    BY <1>0, <1>10 DEF CloseResets, Pending, Formed, Ops
  <2>2. Formed([q EXCEPT !.op = "createReset"])
    BY <1>0, <2>1 DEF Formed, Request
  <2>3. RequestTypes' /\ TokenTypes'
    BY <1>10, <2>1, <2>2, Continued, Closed DEF CloseResets
  <2> QED BY <1>10, <2>3 DEF CloseResets, UserTypes, SessionTypes
<1>11. CASE CreateReset(r)
  <2>1. q.user \in Users
    BY <1>0, <1>11 DEF CreateReset, Pending, Formed, Ops
  <2>2. RequestTypes' /\ TokenTypes'
    BY <1>11, <2>1, Finished DEF CreateReset, TokenTypes, Token
  <2> QED BY <1>11, <2>2 DEF CreateReset, UserTypes, SessionTypes
<1>12. CASE CloseReset(r)
  <2>1. q.user \in Users /\ q.item \in Resets /\ "endSessions" \in Ops
    BY <1>0, <1>12 DEF CloseReset, Pending, Formed, Ops
  <2>2. Formed([q EXCEPT !.op = "endSessions"])
    BY <1>0, <2>1 DEF Formed, Request
  <2>3. RequestTypes'
    BY <1>12, <2>1, <2>2, Continued DEF CloseReset
  <2>4. TokenTypes'
    BY <1>12, <2>1 DEF CloseReset, TokenTypes, Token
  <2> QED BY <1>12, <2>3, <2>4 DEF CloseReset, UserTypes, SessionTypes
<1>13. CASE EndSessions(r)
  <2>1. q.user \in Users /\ q.count \in Nat
    BY <1>0, <1>13 DEF EndSessions, Pending, Formed, Ops, Request
  <2>2. RequestTypes' /\ SessionTypes'
    BY <1>13, <2>1, Finished DEF EndSessions, SessionTypes
  <2> QED BY <1>13, <2>2 DEF EndSessions, UserTypes, TokenTypes
<1>14. CASE AcceptPassword(r)
  <2> DEFINE a == [q EXCEPT !.op = "closeInvite", !.count = chosen[q.user] + 1]
  <2>1. /\ q.user \in Users /\ q.item \in Invites /\ q.via = "invite"
        /\ "closeInvite" \in Ops
    BY <1>0, <1>14 DEF AcceptPassword, Pending, Formed, Ops
  <2>2. chosen[q.user] + 1 \in Nat
    BY <2>1 DEF UserTypes
  <2>3. a \in Request
    BY <1>0, <2>1, <2>2 DEF Request
  <2>4. Formed(a)
    BY <1>0, <2>1, <2>2 DEF Formed, Request
  <2>5. req' = [req EXCEPT ![r] = a]
    BY <1>14 DEF AcceptPassword, RequestTypes
  <2> HIDE DEF a
  <2>6. RequestTypes'
    BY <2>3, <2>4, <2>5, Served
  <2>7. UserTypes'
    BY <1>14, <2>1, UnlockedRow, PasswordWritten DEF AcceptPassword, UserTypes
  <2> QED BY <1>14, <2>6, <2>7 DEF AcceptPassword, TokenTypes, SessionTypes
<1>15. CASE ResetPassword(r)
  <2> DEFINE a == [q EXCEPT !.op = "closeReset", !.count = chosen[q.user] + 1]
  <2>1. q.user \in Users /\ q.item \in Resets /\ "closeReset" \in Ops
    BY <1>0, <1>15 DEF ResetPassword, Pending, Formed, Ops
  <2>2. chosen[q.user] + 1 \in Nat
    BY <2>1 DEF UserTypes
  <2>3. a \in Request
    BY <1>0, <2>1, <2>2 DEF Request
  <2>4. Formed(a)
    BY <1>0, <2>1, <2>2 DEF Formed, Request
  <2>5. req' = [req EXCEPT ![r] = a]
    BY <1>15 DEF ResetPassword, RequestTypes
  <2> HIDE DEF a
  <2>6. RequestTypes'
    BY <2>3, <2>4, <2>5, Served
  <2>7. UserTypes'
    BY <1>15, <2>1, UnlockedRow, PasswordWritten DEF ResetPassword, UserTypes
  <2> QED BY <1>15, <2>6, <2>7 DEF ResetPassword, TokenTypes, SessionTypes
<1>16. CASE Consume(r)
  <2>1. q.item \in Logins /\ "match" \in Ops
    BY <1>0, <1>16 DEF Consume, Pending, Formed, Ops
  <2>2. Formed([q EXCEPT !.op = "match"])
    BY <1>0, <2>1 DEF Formed, Request
  <2>3. RequestTypes'
    BY <1>16, <2>1, <2>2, Continued, Finished DEF Consume
  <2>4. TokenTypes'
    BY <1>16 DEF Consume, TokenTypes
  <2> QED BY <1>16, <2>3, <2>4 DEF Consume, UserTypes, SessionTypes
<1>17. CASE Match(r)
  <2>1. q.item \in Logins /\ "activate" \in Ops
    BY <1>0, <1>17 DEF Match, Pending, Formed, Ops
  <2>2. ASSUME NEW u \in Users,
               req' = [req EXCEPT ![r].op = "activate", ![r].user = u,
                                  ![r].via = "sso", ![r].count = chosen[u]]
        PROVE  RequestTypes'
    <3> DEFINE a == [q EXCEPT !.op = "activate", !.user = u, !.via = "sso",
                              !.count = chosen[u]]
    <3>1. chosen[u] \in Nat
      BY DEF UserTypes
    <3>2. a \in Request
      BY <1>0, <2>1, <3>1 DEF Request, Ways
    <3>3. Formed(a)
      BY <1>0, <2>1, <3>1 DEF Formed, Request, Ways
    <3>4. req' = [req EXCEPT ![r] = a]
      BY <2>2 DEF RequestTypes
    <3> HIDE DEF a
    <3> QED BY <3>2, <3>3, <3>4, Served
  <2>3. RequestTypes'
    BY <1>17, <2>2, Finished DEF Match
  <2> QED BY <1>17, <2>3 DEF Match, UserTypes, TokenTypes, SessionTypes
<1> QED
  BY <1>1, <1>2, <1>3, <1>4, <1>5, <1>6, <1>7, <1>8, <1>9, <1>10, <1>11,
     <1>12, <1>13, <1>14, <1>15, <1>16, <1>17
  DEF Step

LEMMA TimeTypes ==
  ASSUME TypeInv, UNCHANGED overlapped,
         \/ \E r \in Requests : Stop(r)
         \/ \E u \in Users : LockElapses(u)
         \/ Expire
  PROVE  TypeInv'
<1> USE DEF TypeInv, tokens, history
<1>1. ASSUME NEW r \in Requests, Stop(r) PROVE TypeInv'
  BY <1>1, Finished DEF Stop, UserTypes, TokenTypes, SessionTypes
<1>2. ASSUME NEW u \in Users, LockElapses(u) PROVE TypeInv'
  <2>1. UserTypes'
    BY <1>2, Column DEF LockElapses, UserTypes
  <2> QED BY <1>2, <2>1 DEF LockElapses, TokenTypes, RequestTypes, SessionTypes
<1>3. CASE Expire
  <2>1. SessionTypes'
    BY <1>3 DEF Expire, SessionTypes
  <2>2. TokenTypes'
    BY <1>3 DEF Expire, TokenTypes, Token
  <2> QED BY <1>3, <2>1, <2>2 DEF Expire, UserTypes, RequestTypes
<1> QED BY <1>1, <1>2, <1>3

LEMMA NextTypes ==
  ASSUME TypeInv, [Next]_vars
  PROVE  TypeInv'
<1>1. CASE UNCHANGED vars
  BY <1>1
  DEF vars, tokens, history, TypeInv, UserTypes, TokenTypes, RequestTypes,
      SessionTypes
<1>2. ASSUME NEW r \in Requests, Start(r),
             overlapped' = (overlapped \/ ~Alone(r))
      PROVE  TypeInv'
  <2>1. overlapped' \in BOOLEAN
    BY <1>2
  <2> QED BY <1>2, <2>1, RequestStarts, RowStarts DEF Start, SamlStart, Acs
<1>3. ASSUME NEW r \in Requests, Step(r), UNCHANGED overlapped PROVE TypeInv'
  BY <1>3, StepTypes
<1> QED BY <1>1, <1>2, <1>3, TimeTypes DEF Next

(* The variables of SignIn keep their types.                               *)
THEOREM SignInTypes == Spec => []TypeOK
<1>1. Init => TypeInv
  BY InitTypes
<1>2. TypeInv /\ [Next]_vars => TypeInv'
  BY NextTypes
<1>3. TypeInv => TypeOK
  BY TypeInvTypes
<1> QED BY <1>1, <1>2, <1>3, PTL DEF Spec

-----------------------------------------------------------------------------
(* Whom a login state or an invitation lets in *)

(* A request that a login state, or an invitation, brought this far; a late *)
(* one has closed its invitation.                                           *)
Carries(q, s) == q.item = s /\ q.op \in {"match", "activate", "open"}
Late(q, i) == q.item = i /\ q.op \in {"activate", "open"}
Accepts(q, i) ==
  q.item = i /\ q.op \in {"acceptPassword", "closeInvite", "activate", "open"}
Acceptors(i) == {r \in Requests : Accepts(req[r], i)}

LoginInv ==
  \A s \in Logins :
    /\ opened[s] <= 1
    /\ opened[s] # 0 => login[s] = "gone"
    /\ \A r \in Requests : Carries(req[r], s) =>
         /\ login[s] = "gone" /\ opened[s] = 0
         /\ \A t \in Requests : Carries(req[t], s) => t = r

InviteInv ==
  \A i \in Invites :
    /\ opened[i] + Cardinality(Acceptors(i)) <= Cardinality(Requests)
    /\ opened[i] # 0 => invite[i].state = "closed"
    /\ \A r \in Requests : Late(req[r], i) => invite[i].state = "closed"

LEMMA IdleCarries ==
  \A k \in Invites \union Logins :
    ~Carries(Idle, k) /\ ~Late(Idle, k) /\ ~Accepts(Idle, k)
BY TokensAssumption DEF Idle, Carries, Late, Accepts

LEMMA InitTokens == Init => LoginInv /\ InviteInv
<1> SUFFICES ASSUME Init PROVE LoginInv /\ InviteInv
  OBVIOUS
<1>1. \A r \in Requests : req[r] = Idle
  BY DEF Init
<1>2. LoginInv
  BY <1>1, IdleCarries DEF Init, LoginInv
<1>3. \A i \in Invites : Acceptors(i) = {}
  BY <1>1, IdleCarries DEF Acceptors
<1>4. Cardinality({}) = 0 /\ Cardinality(Requests) \in Nat
  BY RequestsAssumption, FS_EmptySet, FS_CardinalityType
<1>5. \A i \in Invites : opened[i] + Cardinality(Acceptors(i)) = 0
  BY <1>3, <1>4 DEF Init
<1>6. InviteInv
  BY <1>1, <1>4, <1>5, IdleCarries DEF Init, InviteInv
<1> QED BY <1>2, <1>6

(* A request that is carried by what carried it, or by nothing.            *)
Follows(q, p) ==
  /\ \A s \in Logins : Carries(q, s) => Carries(p, s)
  /\ \A i \in Invites : /\ Late(q, i) => Late(p, i)
                        /\ Accepts(q, i) => Accepts(p, i)

LEMMA Onward ==
  ASSUME TypeInv, LoginInv, InviteInv, NEW r \in Requests, NEW q,
         req' = [req EXCEPT ![r] = q], Follows(q, req[r]), UNCHANGED opened,
         \A s \in Logins : login[s] = "gone" => login'[s] = "gone",
         \A i \in Invites :
           invite[i].state = "closed" => invite'[i].state = "closed"
  PROVE  LoginInv' /\ InviteInv'
<1>1. \A t \in Requests :
        /\ \A s \in Logins : Carries(req'[t], s) => Carries(req[t], s)
        /\ \A i \in Invites : /\ Late(req'[t], i) => Late(req[t], i)
                              /\ Accepts(req'[t], i) => Accepts(req[t], i)
  BY DEF Follows, TypeInv, RequestTypes
<1>2. LoginInv'
  BY <1>1 DEF LoginInv
<1>3. ASSUME NEW i \in Invites
      PROVE  /\ Cardinality(Acceptors(i)') <= Cardinality(Acceptors(i))
             /\ Cardinality(Acceptors(i)) \in Nat
             /\ Cardinality(Acceptors(i)') \in Nat
  <2>1. Acceptors(i)' \subseteq Acceptors(i)
    BY <1>1 DEF Acceptors
  <2>2. IsFiniteSet(Acceptors(i))
    BY RequestsAssumption, FS_Subset DEF Acceptors
  <2> QED BY <2>1, <2>2, FS_Subset, FS_CardinalityType
<1>4. InviteInv'
  <2>1. Cardinality(Requests) \in Nat
    BY RequestsAssumption, FS_CardinalityType
  <2> QED
    BY <1>1, <1>3, <2>1 DEF InviteInv, TypeInv, SessionTypes
<1> QED BY <1>2, <1>4

LEMMA Rested ==
  ASSUME TypeInv, LoginInv, InviteInv, NEW r \in Requests, UNCHANGED opened,
         UNCHANGED req \/ Finish(r),
         \A s \in Logins : login[s] = "gone" => login'[s] = "gone",
         \A i \in Invites :
           invite[i].state = "closed" => invite'[i].state = "closed"
  PROVE  LoginInv' /\ InviteInv'
<1>1. CASE UNCHANGED req
  <2>1. req' = [req EXCEPT ![r] = req[r]] /\ Follows(req[r], req[r])
    BY <1>1 DEF TypeInv, RequestTypes, Follows
  <2> QED BY <2>1, Onward
<1>2. CASE Finish(r)
  <2>1. Follows(Idle, req[r])
    BY IdleCarries DEF Follows
  <2> QED BY <1>2, <2>1, Onward DEF Finish
<1> QED BY <1>1, <1>2

LEMMA StartTokens ==
  ASSUME TypeInv, LoginInv, InviteInv, NEW r \in Requests, Start(r)
  PROVE  LoginInv' /\ InviteInv'
<1> USE DEF tokens, history
<1>1. ASSUME NEW q, Serve(r, q), UNCHANGED <<tokens, opened>>,
             \/ q.item = None
             \/ q.op \in {"resetPassword", "consume"}
      PROVE  LoginInv' /\ InviteInv'
  <2>1. Follows(q, req[r])
    BY <1>1, TokensAssumption, NoneAssumption
    DEF Follows, Carries, Late, Accepts
  <2> QED BY <1>1, <2>1, Onward DEF Serve
<1>2. ASSUME NEW u \in Users,
             \/ WrongPassword(r, u)  \/ RightPassword(r, u)
             \/ ConfirmMfaSetup(r, u)  \/ StartDisableMfa(r, u)
             \/ StartInvite(r, u)  \/ StartReset(r, u)
      PROVE  LoginInv' /\ InviteInv'
  BY <1>1, <1>2
  DEF WrongPassword, RightPassword, ConfirmMfaSetup, StartDisableMfa,
      StartInvite, StartReset, Idle
<1>3. ASSUME NEW c \in challenges, VerifyMfa(r, c) PROVE LoginInv' /\ InviteInv'
  BY <1>1, <1>3 DEF VerifyMfa, Idle
<1>4. ASSUME NEW t \in Resets, StartConfirm(r, t) PROVE LoginInv' /\ InviteInv'
  BY <1>1, <1>4 DEF StartConfirm, Idle
<1>5. ASSUME NEW s \in Logins, StartCallback(r, s) PROVE LoginInv' /\ InviteInv'
  BY <1>1, <1>5 DEF StartCallback, Idle
<1>6. ASSUME NEW s \in Logins, StartLogin(r, s) PROVE LoginInv' /\ InviteInv'
  BY <1>6, Rested DEF StartLogin, TypeInv, TokenTypes
<1>7. ASSUME UNCHANGED <<req, invite, login, opened>>
      PROVE  LoginInv' /\ InviteInv'
  BY <1>7, Rested
<1>8. ASSUME NEW u \in Users,
             \/ Challenge(r, u)  \/ StartMfaSetup(r, u)  \/ CreateUser(r, u)
             \/ Reactivate(r, u)  \/ Deactivate(r, u)
             \/ \E s \in Statuses :
                  \/ UpdateStatus(r, u, s)  \/ UpdatePassword(r, u, s)
                  \/ Provision(r, u, s)
      PROVE  LoginInv' /\ InviteInv'
  BY <1>7, <1>8
  DEF Challenge, StartMfaSetup, CreateUser, Reactivate, Deactivate,
      UpdateStatus, UpdatePassword, Provision
<1>9. ASSUME NEW i \in Invites, StartAccept(r, i) PROVE LoginInv' /\ InviteInv'
  <2> DEFINE q == [Idle EXCEPT !.op = "acceptPassword", !.via = "invite",
                     !.user = invite[i].user, !.item = i]
  <2>1. /\ req' = [req EXCEPT ![r] = q]
        /\ q.op = "acceptPassword" /\ q.item = i
        /\ invite[i].state = "open"
        /\ UNCHANGED <<invite, login, opened>>
    BY <1>9 DEF StartAccept, Serve, Idle
  <2> HIDE DEF q
  <2>2. \A t \in Requests : req'[t] = IF t = r THEN q ELSE req[t]
    BY <2>1 DEF TypeInv, RequestTypes
  <2>3. /\ \A t \in Requests, s \in Logins :
             Carries(req'[t], s) => Carries(req[t], s)
        /\ \A t \in Requests, j \in Invites :
             Late(req'[t], j) => Late(req[t], j)
    BY <2>1, <2>2 DEF Carries, Late
  <2>4. LoginInv'
    BY <2>1, <2>3 DEF LoginInv
  <2>5. ASSUME NEW j \in Invites
        PROVE  opened'[j] + Cardinality(Acceptors(j)') <= Cardinality(Requests)
    <3>1. Acceptors(j)' \subseteq Requests /\ Acceptors(j) \subseteq Requests
      BY DEF Acceptors
    <3>2. /\ Cardinality(Acceptors(j)') <= Cardinality(Requests)
          /\ Cardinality(Acceptors(j)') \in Nat
          /\ Cardinality(Requests) \in Nat
      BY <3>1, RequestsAssumption, FS_Subset, FS_CardinalityType
    <3>3. CASE j = i
      <4>1. opened'[j] = 0
        BY <2>1, <3>3 DEF InviteInv
      <4> QED BY <3>2, <4>1
    <3>4. CASE j # i
      <4>1. Acceptors(j)' \subseteq Acceptors(j)
        BY <2>1, <2>2, <3>4 DEF Acceptors, Accepts
      <4>2. IsFiniteSet(Acceptors(j))
        BY <3>1, RequestsAssumption, FS_Subset
      <4>3. /\ Cardinality(Acceptors(j)') <= Cardinality(Acceptors(j))
            /\ Cardinality(Acceptors(j)) \in Nat
        BY <4>1, <4>2, FS_Subset, FS_CardinalityType
      <4> QED
        BY <2>1, <3>2, <4>3 DEF InviteInv, TypeInv, SessionTypes
    <3> QED BY <3>3, <3>4
  <2>6. InviteInv'
    BY <2>1, <2>3, <2>5 DEF InviteInv
  <2> QED BY <2>4, <2>6
<1> QED
  BY <1>2, <1>3, <1>4, <1>5, <1>6, <1>8, <1>9
  DEF Start, SamlStart, Acs, Statuses

LEMMA StepTokens ==
  ASSUME TypeInv, LoginInv, InviteInv, NEW r \in Requests, Step(r)
  PROVE  LoginInv' /\ InviteInv'
<1> DEFINE q == req[r]
<1> USE DEF tokens, history
<1>0. q \in Request /\ Formed(q)
  BY DEF TypeInv, RequestTypes
<1>1. ASSUME \/ CountFailure(r)  \/ EnableMfa(r)  \/ DisableMfa(r)
             \/ CreateReset(r)  \/ EndSessions(r)
      PROVE  LoginInv' /\ InviteInv'
  BY <1>1, Rested
  DEF CountFailure, EnableMfa, DisableMfa, CreateReset, EndSessions
<1>2. CASE CreateInvite(r)
  <2>1. \A i \in Invites :
          invite[i].state = "closed" => invite'[i].state = "closed"
    BY <1>2 DEF CreateInvite, TypeInv, TokenTypes
  <2> QED BY <1>2, <2>1, Rested DEF CreateInvite
<1>3. ASSUME NEW o, Then(r, o), UNCHANGED <<opened, login>>,
             \/ o \in {"closeInvites", "createInvite", "createReset",
                       "endSessions"}
             \/ o = "open" /\ q.op = "activate",
             \A i \in Invites :
               invite[i].state = "closed" => invite'[i].state = "closed"
      PROVE  LoginInv' /\ InviteInv'
  <2> DEFINE p == [q EXCEPT !.op = o]
  <2>1. req' = [req EXCEPT ![r] = p] /\ p.op = o /\ p.item = q.item
    BY <1>0, <1>3 DEF Then, Request, TypeInv, RequestTypes
  <2> HIDE DEF p
  <2>2. Follows(p, q)
    BY <1>3, <2>1 DEF Follows, Carries, Late, Accepts
  <2> QED BY <1>3, <2>1, <2>2, Onward
<1>4. ASSUME \/ Activate(r)  \/ CloseResets(r)  \/ CloseReset(r)
      PROVE  LoginInv' /\ InviteInv'
  BY <1>3, <1>4 DEF Activate, CloseResets, CloseReset, Pending
<1>5. CASE WriteInvited(r)
  BY <1>3, <1>5, Rested DEF WriteInvited
<1>6. CASE CloseInvites(r)
  <2>1. \A i \in Invites :
          invite[i].state = "closed" => invite'[i].state = "closed"
    BY <1>6 DEF CloseInvites, Close, TypeInv, TokenTypes, Token
  <2> QED BY <1>3, <1>6, <2>1 DEF CloseInvites
<1>7. ASSUME NEW p, req' = [req EXCEPT ![r] = p], p.item = q.item,
             \/ p.op = "closeInvite" /\ q.op = "acceptPassword"
             \/ p.op = "closeReset",
             UNCHANGED <<tokens, opened>>
      PROVE  LoginInv' /\ InviteInv'
  <2>1. Follows(p, q)
    BY <1>7 DEF Follows, Carries, Late, Accepts
  <2> QED BY <1>7, <2>1, Onward
<1>8. CASE AcceptPassword(r)
  <2> DEFINE p == [q EXCEPT !.op = "closeInvite", !.count = chosen[q.user] + 1]
  <2>1. /\ req' = [req EXCEPT ![r] = p]
        /\ p.item = q.item /\ p.op = "closeInvite" /\ q.op = "acceptPassword"
    BY <1>0, <1>8 DEF AcceptPassword, Pending, TypeInv, RequestTypes, Request
  <2> QED BY <1>7, <1>8, <2>1 DEF AcceptPassword
<1>9. CASE ResetPassword(r)
  <2> DEFINE p == [q EXCEPT !.op = "closeReset", !.count = chosen[q.user] + 1]
  <2>1. /\ req' = [req EXCEPT ![r] = p]
        /\ p.item = q.item /\ p.op = "closeReset"
    BY <1>0, <1>9 DEF ResetPassword, TypeInv, RequestTypes, Request
  <2> QED BY <1>7, <1>9, <2>1 DEF ResetPassword
<1>10. CASE Match(r)
  <2>1. ASSUME NEW u \in Users,
               req' = [req EXCEPT ![r].op = "activate", ![r].user = u,
                                  ![r].via = "sso", ![r].count = chosen[u]]
        PROVE  LoginInv' /\ InviteInv'
    <3> DEFINE p == [q EXCEPT !.op = "activate", !.user = u, !.via = "sso",
                              !.count = chosen[u]]
    <3>1. /\ req' = [req EXCEPT ![r] = p]
          /\ p.item = q.item /\ p.op = "activate"
      BY <1>0, <2>1 DEF TypeInv, RequestTypes, Request
    <3> HIDE DEF p
    <3>2. q.op = "match" /\ q.item \in Logins
      BY <1>0, <1>10 DEF Match, Pending, Formed
    <3>3. Follows(p, q)
      BY <3>1, <3>2, TokensAssumption DEF Follows, Carries, Late, Accepts
    <3> QED BY <1>10, <3>1, <3>3, Onward DEF Match
  <2> QED BY <1>10, <2>1, Rested DEF Match
(* The row of the login state is deleted once: a second request that       *)
(* deletes it ends here.                                                   *)
<1>11. CASE Consume(r)
  <2>1. /\ q.item \in Logins /\ q.op = "consume"
        /\ login' = [login EXCEPT ![q.item] = "gone"]
        /\ UNCHANGED <<invite, opened>>
    BY <1>0, <1>11 DEF Consume, Pending, Formed
  <2>2. CASE login[q.item] = "gone"
    BY <1>11, <2>1, <2>2, Rested DEF Consume, TypeInv, TokenTypes
  <2>3. CASE login[q.item] # "gone"
    <3> DEFINE p == [q EXCEPT !.op = "match"]
    <3>1. /\ req' = [req EXCEPT ![r] = p]
          /\ p.item = q.item /\ p.op = "match"
      BY <1>0, <1>11, <2>3 DEF Consume, Then, TypeInv, RequestTypes, Request
    <3> HIDE DEF p
    <3>2. \A t \in Requests : req'[t] = IF t = r THEN p ELSE req[t]
      BY <3>1 DEF TypeInv, RequestTypes
    <3>3. \A t \in Requests, s \in Logins : Carries(req'[t], s) =>
            Carries(req[t], s) \/ (t = r /\ s = q.item)
      BY <3>1, <3>2 DEF Carries
    <3>4. /\ opened[q.item] = 0
          /\ \A t \in Requests : ~Carries(req[t], q.item)
      BY <2>1, <2>3 DEF LoginInv, TypeInv, SessionTypes
    <3>5. ~Carries(q, q.item)
      BY <2>1 DEF Carries
    <3>6. LoginInv'
      BY <2>1, <3>3, <3>4 DEF LoginInv, TypeInv, TokenTypes
    <3>7. \A t \in Requests, i \in Invites :
            /\ Late(req'[t], i) => Late(req[t], i)
            /\ Accepts(req'[t], i) <=> Accepts(req[t], i)
      BY <2>1, <3>1, <3>2 DEF Late, Accepts
    <3>8. \A i \in Invites : Acceptors(i)' = Acceptors(i)
      BY <3>7 DEF Acceptors
    <3>9. InviteInv'
      BY <2>1, <3>7, <3>8 DEF InviteInv
    <3> QED BY <3>6, <3>9
  <2> QED BY <2>2, <2>3
<1>12. CASE CloseInvite(r)
  <2> DEFINE p == [q EXCEPT !.op = "activate"]
  <2>1. /\ req' = [req EXCEPT ![r] = p]
        /\ p.item = q.item /\ p.op = "activate"
        /\ q.op = "closeInvite" /\ q.item \in Invites
        /\ invite' = [invite EXCEPT ![q.item].state = "closed"]
        /\ UNCHANGED <<login, opened>>
    BY <1>0, <1>12
    DEF CloseInvite, Then, Pending, Formed, TypeInv, RequestTypes, Request
  <2> HIDE DEF p
  <2>2. \A t \in Requests : req'[t] = IF t = r THEN p ELSE req[t]
    BY <2>1 DEF TypeInv, RequestTypes
  <2>3. \A t \in Requests, s \in Logins :
          Carries(req'[t], s) => Carries(req[t], s)
    BY <2>1, <2>2, TokensAssumption DEF Carries
  <2>4. LoginInv'
    BY <2>1, <2>3 DEF LoginInv
  <2>5. \A t \in Requests, i \in Invites :
          /\ Late(req'[t], i) => Late(req[t], i) \/ i = q.item
          /\ Accepts(req'[t], i) <=> Accepts(req[t], i)
    BY <2>1, <2>2 DEF Late, Accepts
  <2>6. \A i \in Invites : Acceptors(i)' = Acceptors(i)
    BY <2>5 DEF Acceptors
  <2>7. /\ invite'[q.item].state = "closed"
        /\ \A i \in Invites :
             invite[i].state = "closed" => invite'[i].state = "closed"
    BY <2>1 DEF TypeInv, TokenTypes, Token
  <2>8. InviteInv'
    BY <2>1, <2>5, <2>6, <2>7 DEF InviteInv
  <2> QED BY <2>4, <2>8
(* The session of an acceptor takes its place in the count.                *)
<1>13. CASE OpenSession(r)
  <2>1. /\ req' = [req EXCEPT ![r] = Idle]
        /\ q.op = "open" /\ q.item \in Invites \union Logins \union {None}
        /\ UNCHANGED <<invite, login>>
        /\ opened' = IF q.item = None THEN opened
                     ELSE [opened EXCEPT ![q.item] = @ + 1]
    BY <1>0, <1>13 DEF OpenSession, Finish, Pending, Formed
  <2>2. CASE q.item = None
    BY <1>13, <2>1, <2>2, Rested DEF OpenSession
  <2>3. CASE q.item # None
    <3>1. /\ q.item \in Invites \union Logins
          /\ opened' = [opened EXCEPT ![q.item] = @ + 1]
      BY <2>1, <2>3
    <3>2. \A t \in Requests : req'[t] = IF t = r THEN Idle ELSE req[t]
      BY <2>1 DEF TypeInv, RequestTypes
    <3>3. \A t \in Requests, k \in Invites \union Logins :
            /\ Carries(req'[t], k) <=> t # r /\ Carries(req[t], k)
            /\ Late(req'[t], k) <=> t # r /\ Late(req[t], k)
            /\ Accepts(req'[t], k) <=> t # r /\ Accepts(req[t], k)
      BY <3>2, IdleCarries
    <3>4. Carries(q, q.item) /\ Late(q, q.item) /\ Accepts(q, q.item)
      BY <2>1 DEF Carries, Late, Accepts
    <3>5. opened \in [Invites \union Logins -> Nat]
      BY DEF TypeInv, SessionTypes
    <3>6. LoginInv'
      BY <2>1, <3>1, <3>3, <3>4, <3>5 DEF LoginInv
    <3>7. ASSUME NEW i \in Invites
          PROVE  opened'[i] + Cardinality(Acceptors(i)')
                   <= Cardinality(Requests)
      <4>1. /\ Acceptors(i) \subseteq Requests
            /\ IsFiniteSet(Acceptors(i))
            /\ Cardinality(Acceptors(i)) \in Nat
            /\ Cardinality(Requests) \in Nat
        BY RequestsAssumption, FS_Subset, FS_CardinalityType DEF Acceptors
      <4>2. CASE i = q.item
        <5>1. Acceptors(i)' = Acceptors(i) \ {r} /\ r \in Acceptors(i)
          BY <3>3, <3>4, <4>2 DEF Acceptors
        <5>2. Cardinality(Acceptors(i)') = Cardinality(Acceptors(i)) - 1
          BY <4>1, <5>1, FS_RemoveElement
        <5>3. opened'[i] = opened[i] + 1
          BY <3>1, <3>5, <4>2
        <5> QED BY <3>5, <4>1, <5>2, <5>3 DEF InviteInv
      <4>3. CASE i # q.item
        <5>1. ~Accepts(q, i) /\ opened'[i] = opened[i]
          BY <3>1, <3>5, <4>3 DEF Accepts
        <5>2. Acceptors(i)' = Acceptors(i)
          BY <3>3, <5>1 DEF Acceptors
        <5> QED BY <5>1, <5>2 DEF InviteInv
      <4> QED BY <4>2, <4>3
    <3>8. \A i \in Invites : opened'[i] # 0 => invite[i].state = "closed"
      BY <3>1, <3>4, <3>5 DEF InviteInv
    <3>9. InviteInv'
      BY <2>1, <3>3, <3>7, <3>8 DEF InviteInv
    <3> QED BY <3>6, <3>9
  <2> QED BY <2>2, <2>3
<1> QED
  BY <1>1, <1>2, <1>4, <1>5, <1>6, <1>8, <1>9, <1>10, <1>11, <1>12, <1>13
  DEF Step

LEMMA NextTokens ==
  ASSUME TypeInv, LoginInv, InviteInv, [Next]_vars
  PROVE  LoginInv' /\ InviteInv'
<1>1. CASE UNCHANGED vars
  BY <1>1 DEF vars, tokens, history, LoginInv, InviteInv, Acceptors
<1>2. ASSUME NEW r \in Requests, Stop(r) PROVE LoginInv' /\ InviteInv'
  BY <1>2, Rested DEF Stop, tokens, history
<1>3. ASSUME UNCHANGED <<req, opened>>,
             \A s \in Logins : login[s] = "gone" => login'[s] = "gone",
             \A i \in Invites :
               invite[i].state = "closed" => invite'[i].state = "closed"
      PROVE  LoginInv' /\ InviteInv'
  <2>1. \A i \in Invites : Acceptors(i)' = Acceptors(i)
    BY <1>3 DEF Acceptors
  <2> QED BY <1>3, <2>1 DEF LoginInv, InviteInv
<1>4. ASSUME NEW u \in Users, LockElapses(u) PROVE LoginInv' /\ InviteInv'
  BY <1>3, <1>4 DEF LockElapses, tokens
<1>5. CASE Expire
  <2>1. /\ \A s \in Logins : login[s] = "gone" => login'[s] = "gone"
        /\ \A i \in Invites :
             invite[i].state = "closed" => invite'[i].state = "closed"
    BY <1>5 DEF Expire, tokens, TypeInv, TokenTypes, Token
  <2> QED BY <1>3, <1>5, <2>1 DEF Expire, history
<1> QED BY <1>1, <1>2, <1>4, <1>5, StartTokens, StepTokens DEF Next

(* A login state opens one session at most, for any number of requests     *)
(* that bring it back and wherever they stop: the delete of its row is     *)
(* what decides between them.                                              *)
THEOREM LoginsOpenOnce == Spec => []LoginOpensOnce
<1> DEFINE Inv == TypeInv /\ LoginInv /\ InviteInv
<1>1. Init => Inv
  BY InitTypes, InitTokens
<1>2. Inv /\ [Next]_vars => Inv'
  BY NextTypes, NextTokens
<1>3. Inv => LoginOpensOnce
  BY DEF LoginInv, LoginOpensOnce
<1> QED BY <1>1, <1>2, <1>3, PTL DEF Spec

(* An invitation opens no more sessions than requests can accept it at the *)
(* same time: nobody can start to accept it once the first of them has     *)
(* closed it, and no session is opened before that.                        *)
THEOREM InvitesPerOverlap == Spec => []InvitePerOverlap
<1> DEFINE Inv == TypeInv /\ LoginInv /\ InviteInv
<1>1. Init => Inv
  BY InitTypes, InitTokens
<1>2. Inv /\ [Next]_vars => Inv'
  BY NextTypes, NextTokens
<1>3. Inv => InvitePerOverlap
  <2> SUFFICES ASSUME Inv, NEW i \in Invites
               PROVE  opened[i] <= Cardinality(Requests)
    BY DEF InvitePerOverlap
  <2>1. IsFiniteSet(Acceptors(i))
    BY RequestsAssumption, FS_Subset DEF Acceptors
  <2>2. Cardinality(Acceptors(i)) \in Nat /\ Cardinality(Requests) \in Nat
    BY <2>1, RequestsAssumption, FS_CardinalityType
  <2> QED BY <2>2 DEF InviteInv, TypeInv, SessionTypes
<1> QED BY <1>1, <1>2, <1>3, PTL DEF Spec

-----------------------------------------------------------------------------
(* What holds as long as requests do not overlap *)

Single == \A r, s \in Requests : req[r] # Idle /\ req[s] # Idle => r = s

(* Failures that were counted show in the row, and the account is locked   *)
(* by the last of them; a failure that is being counted is one more.       *)
Counted(u) ==
  /\ tries[u] <= user[u].failures
  /\ user[u].failures = MaxFailed /\ ~user[u].until => tries[u] = 0
CountReady(q) == q.op = "countFailure" => tries[q.user] < q.count
CountInv ==
  /\ \A u \in Users : Counted(u)
  /\ \A r \in Requests : CountReady(req[r])

(* The password of a user is the one last chosen, or none; nobody signs in *)
(* with one from before the last reset, but with a code.                   *)
Current(u) ==
  /\ floor[u] <= chosen[u]
  /\ user[u].password = 0 \/ user[u].password = chosen[u]
Recent(s) == s.password >= floor[s.user] \/ s.via = "code"
PasswordReady(q) ==
  /\ q.op \in {"closeInvite", "activate", "open"} =>
       q.count >= floor[q.user] \/ q.via = "code"
  /\ q.op \in {"closeReset", "endSessions"} => q.count <= chosen[q.user]
PasswordInv ==
  /\ \A u \in Users : Current(u)
  /\ \A s \in sessions : Recent(s)
  /\ \A r \in Requests : PasswordReady(req[r])

(* A token that is being made will be the only one of its user, and the    *)
(* request an invitation lets in is the only one.                          *)
Sole(rows) ==
  \A k, l \in DOMAIN rows :
    rows[k].state = "open" /\ rows[l].state = "open"
      /\ rows[k].user = rows[l].user => k = l
NoneOpen(rows, u) ==
  \A k \in DOMAIN rows : ~(rows[k].state = "open" /\ rows[k].user = u)
TokenReady(q) ==
  /\ q.op = "createInvite" => NoneOpen(invite, q.user)
  /\ q.op = "createReset" => NoneOpen(reset, q.user)
  /\ \A i \in Invites : Accepts(q, i) => opened[i] = 0
TokenInv ==
  /\ Sole(invite) /\ Sole(reset)
  /\ \A i \in Invites : opened[i] <= 1
  /\ \A r \in Requests : TokenReady(req[r])

FactorReady(q) == q.op = "enable" => proven[q.user]
FactorInv ==
  /\ \A u \in Users : user[u].mfa => proven[u]
  /\ \A r \in Requests : FactorReady(req[r])

OrderlyInv ==
  ~overlapped => Single /\ CountInv /\ PasswordInv /\ TokenInv /\ FactorInv

LEMMA InitOrderly == Init => OrderlyInv
<1> SUFFICES ASSUME Init PROVE OrderlyInv
  OBVIOUS
<1>1. \A r \in Requests : req[r] = Idle
  BY DEF Init
<1>2. Idle.op = None /\ None \notin Ops
  BY NoneAssumption DEF Idle
<1>3. Single
  BY <1>1 DEF Single
<1>4. CountInv
  BY <1>1, <1>2, NumbersAssumption
  DEF Init, CountInv, Counted, CountReady, NewUser, Ops
<1>5. PasswordInv
  BY <1>1, <1>2
  DEF Init, PasswordInv, Current, PasswordReady, NewUser, Ops
<1>6. TokenInv
  BY <1>1, <1>2, IdleCarries
  DEF Init, TokenInv, Sole, TokenReady, Ops
<1>7. FactorInv
  BY <1>1, <1>2 DEF Init, FactorInv, FactorReady, NewUser, Ops
<1> QED BY <1>3, <1>4, <1>5, <1>6, <1>7 DEF OrderlyInv

(* Nothing is asked of a request at rest.                                  *)
LEMMA IdleReady ==
  CountReady(Idle) /\ PasswordReady(Idle) /\ TokenReady(Idle)
    /\ FactorReady(Idle)
BY NoneAssumption, IdleCarries
DEF Idle, CountReady, PasswordReady, TokenReady, FactorReady, Ops

LEMMA StartFrame ==
  ASSUME TypeInv, NEW r \in Requests, Start(r)
  PROVE  /\ req[r] = Idle
         /\ \A s \in Requests \ {r} : req'[s] = req[s]
BY DEF Start, Serve, WrongPassword, RightPassword, Challenge, StartMfaSetup,
   ConfirmMfaSetup, StartDisableMfa, StartInvite, StartReset, CreateUser,
   Reactivate, Deactivate, UpdateStatus, UpdatePassword, Provision, VerifyMfa,
   StartAccept, StartConfirm, StartLogin, StartCallback, SamlStart, Acs,
   TypeInv, RequestTypes

LEMMA StepFrame ==
  ASSUME TypeInv, NEW r \in Requests, Step(r) \/ Stop(r)
  PROVE  /\ req[r] # Idle
         /\ \A s \in Requests \ {r} : req'[s] = req[s]
<1>1. CASE Stop(r)
  BY <1>1 DEF Stop, Finish, TypeInv, RequestTypes
<1>2. CASE Step(r)
  <2>1. req[r].op \in Ops
    BY <1>2
    DEF Step, CountFailure, Activate, OpenSession, EnableMfa, DisableMfa,
        WriteInvited, CloseInvites, CreateInvite, AcceptPassword, CloseInvite,
        CloseResets, CreateReset, ResetPassword, CloseReset, EndSessions,
        Consume, Match, Pending, Ops
  <2>2. req[r] # Idle
    BY <2>1, NoneAssumption DEF Idle
  <2>3. \A s \in Requests \ {r} : req'[s] = req[s]
    BY <1>2
    DEF Step, CountFailure, Activate, OpenSession, EnableMfa, DisableMfa,
        WriteInvited, CloseInvites, CreateInvite, AcceptPassword, CloseInvite,
        CloseResets, CreateReset, ResetPassword, CloseReset, EndSessions,
        Consume, Match, Then, Finish, TypeInv, RequestTypes
  <2> QED BY <2>2, <2>3
<1> QED BY <1>1, <1>2

(* Counts that are kept as they are, or start again.                       *)
LEMMA Milder ==
  ASSUME TypeInv, TypeInv', CountInv, NEW r \in Requests,
         \A s \in Requests \ {r} : req'[s] = req[s],
         req'[r].op = "countFailure" => req'[r] = req[r],
         \A u \in Users :
           \/ tries'[u] = 0
           \/ /\ tries'[u] = tries[u]
              /\ user'[u].failures = user[u].failures
              /\ user'[u].until = user[u].until
  PROVE  CountInv'
<1>1. \A u \in Users : Counted(u)'
  BY DEF CountInv, Counted, TypeInv, UserTypes, User
<1>2. ASSUME NEW s \in Requests PROVE CountReady(req[s])'
  <2>1. SUFFICES ASSUME req'[s].op = "countFailure"
                 PROVE  tries'[req'[s].user] < req'[s].count
    BY DEF CountReady
  <2>2. req'[s] = req[s]
    BY <2>1
  <2>3. /\ tries[req[s].user] < req[s].count
        /\ req[s].user \in Users /\ req[s].count \in Nat
    BY <2>1, <2>2
    DEF CountInv, CountReady, TypeInv, RequestTypes, Formed, Ops, Request
  <2> QED BY <2>2, <2>3 DEF TypeInv, UserTypes
<1> QED BY <1>1, <1>2 DEF CountInv

(* A row that keeps its count, or starts it again, is written.             *)
LEMMA MilderWrite ==
  ASSUME TypeInv, NEW u \in Users, NEW row \in User, Write(u, row),
         \/ row.failures = 0
         \/ row.failures = user[u].failures /\ row.until = user[u].until
  PROVE  \A v \in Users :
           \/ tries'[v] = 0
           \/ /\ tries'[v] = tries[v]
              /\ user'[v].failures = user[v].failures
              /\ user'[v].until = user[v].until
BY DEF Write, TypeInv, UserTypes

LEMMA KeptRow ==
  ASSUME NEW row \in User
  PROVE  /\ Unlocked(row).failures = 0
         /\ \A s \in Statuses : [Unlocked(row) EXCEPT !.status = s].failures = 0
         /\ \A s \in Statuses : /\ [row EXCEPT !.status = s].failures
                                     = row.failures
                                /\ [row EXCEPT !.status = s].until = row.until
         /\ \A s \in Statuses : [NewUser EXCEPT !.status = s].failures = 0
BY DEF Unlocked, NewUser, User

LEMMA KeptPassword ==
  ASSUME NEW row \in User, NEW u \in Users, WritePassword(u, row),
         row.failures = 0, TypeInv
  PROVE  \A v \in Users :
           \/ tries'[v] = 0
           \/ /\ tries'[v] = tries[v]
              /\ user'[v].failures = user[v].failures
              /\ user'[v].until = user[v].until
<1> DEFINE p == [row EXCEPT !.password = chosen[u] + 1]
<1>1. chosen[u] + 1 \in 0..Passwords /\ Write(u, p)
  BY NumbersAssumption DEF WritePassword, TypeInv, UserTypes
<1>2. p \in User
  BY <1>1, Column
<1>3. p.failures = 0
  BY DEF User
<1> HIDE DEF p
<1> QED BY <1>1, <1>2, <1>3, MilderWrite

(* What a step does to the row of a user that counts no failure.           *)
Mild(u) ==
  \/ tries'[u] = 0
  \/ /\ tries'[u] = tries[u]
     /\ user'[u].failures = user[u].failures
     /\ user'[u].until = user[u].until
Mildly(r) ==
  /\ \A s \in Requests \ {r} : req'[s] = req[s]
  /\ req'[r].op = "countFailure" => req'[r] = req[r]
  /\ \A u \in Users : Mild(u)

(* A request that starts counts no failure, unless the password is wrong.  *)
LEMMA StartMild ==
  ASSUME TypeInv, NEW r \in Requests, Start(r),
         \A u \in Users : ~WrongPassword(r, u)
  PROVE  Mildly(r)
<1>0. /\ req[r] = Idle
      /\ \A s \in Requests \ {r} : req'[s] = req[s]
  BY StartFrame
<1>1. ASSUME UNCHANGED <<user, tries>>,
             req'[r].op # "countFailure" \/ UNCHANGED req
      PROVE  Mildly(r)
  BY <1>0, <1>1 DEF Mildly, Mild
<1>2. ASSUME NEW q, Serve(r, q), q.op # "countFailure", UNCHANGED <<user, tries>>
      PROVE  Mildly(r)
  BY <1>1, <1>2 DEF Serve, TypeInv, RequestTypes
<1>4. ASSUME NEW u \in Users,
             \/ RightPassword(r, u)  \/ ConfirmMfaSetup(r, u)
             \/ StartDisableMfa(r, u)  \/ StartInvite(r, u)  \/ StartReset(r, u)
      PROVE  Mildly(r)
  BY <1>2, <1>4
  DEF RightPassword, ConfirmMfaSetup, StartDisableMfa, StartInvite, StartReset,
      Idle, history
<1>5. ASSUME \/ \E c \in challenges : VerifyMfa(r, c)
             \/ \E i \in Invites : StartAccept(r, i)
             \/ \E t \in Resets : StartConfirm(r, t)
             \/ \E s \in Logins : StartCallback(r, s)
      PROVE  Mildly(r)
  BY <1>2, <1>5
  DEF VerifyMfa, StartAccept, StartConfirm, StartCallback, Idle, history
<1>6. ASSUME \/ \E u \in Users : Challenge(r, u)
             \/ \E s \in Logins : StartLogin(r, s)
      PROVE  Mildly(r)
  BY <1>1, <1>6 DEF Challenge, StartLogin, history
<1>7. ASSUME UNCHANGED req,
             \A v \in Users :
               \/ tries'[v] = 0
               \/ /\ tries'[v] = tries[v]
                  /\ user'[v].failures = user[v].failures
                  /\ user'[v].until = user[v].until
      PROVE  Mildly(r)
  BY <1>0, <1>7 DEF Mildly, Mild
<1>8. ASSUME NEW u \in Users, StartMfaSetup(r, u) PROVE Mildly(r)
  BY <1>7, <1>8 DEF StartMfaSetup, TypeInv, UserTypes, User
<1>9. ASSUME NEW u \in Users, CreateUser(r, u) PROVE Mildly(r)
  <2>1. "active" \in Statuses
    BY DEF Statuses
  <2>2. user[u] \in User
    BY DEF TypeInv, UserTypes
  <2>3. [NewUser EXCEPT !.status = "active"].failures = 0
    BY <2>1, <2>2, KeptRow
  <2> QED BY <1>7, <1>9, <2>1, <2>3, NewRow, KeptPassword DEF CreateUser
<1>10. ASSUME NEW u \in Users, Reactivate(r, u) PROVE Mildly(r)
  <2>1. user[u] \in User
    BY DEF TypeInv, UserTypes
  <2> QED
    BY <1>7, <1>10, <2>1, UnlockedRow, KeptRow, MilderWrite DEF Reactivate
<1>11. ASSUME NEW u \in Users, NEW s \in Statuses, UpdateStatus(r, u, s)
       PROVE  Mildly(r)
  <2>1. user[u] \in User
    BY DEF TypeInv, UserTypes
  <2> QED
    BY <1>7, <1>11, <2>1, Column, KeptRow, MilderWrite DEF UpdateStatus
<1>12. ASSUME NEW u \in Users, NEW s \in Statuses, UpdatePassword(r, u, s)
       PROVE  Mildly(r)
  <2>1. user[u] \in User
    BY DEF TypeInv, UserTypes
  <2> QED
    BY <1>7, <1>12, <2>1, UnlockedRow, KeptRow, KeptPassword
    DEF UpdatePassword
<1>13. ASSUME NEW u \in Users, NEW s \in Statuses, Provision(r, u, s)
       PROVE  Mildly(r)
  <2>1. user[u] \in User
    BY DEF TypeInv, UserTypes
  <2> QED
    BY <1>7, <1>13, <2>1, NewRow, KeptRow, MilderWrite DEF Provision
<1> QED
  BY <1>4, <1>5, <1>6, <1>8, <1>9, <1>10, <1>11, <1>12, <1>13
  DEF Start, SamlStart, Acs, Deactivate, Statuses

(* A request in flight that does not count a failure.                      *)
LEMMA StepMild ==
  ASSUME TypeInv, NEW r \in Requests, Step(r), ~CountFailure(r)
  PROVE  Mildly(r)
<1> DEFINE q == req[r]
<1>0. /\ \A s \in Requests \ {r} : req'[s] = req[s]
      /\ q \in Request /\ Formed(q)
      /\ \A u \in Users : user[u] \in User
  BY StepFrame DEF TypeInv, RequestTypes, UserTypes
<1>1. /\ \A o : Then(r, o) => req'[r].op = o
      /\ Finish(r) => req'[r].op # "countFailure"
  BY <1>0, NoneAssumption
  DEF Then, Finish, Idle, TypeInv, RequestTypes, Request, Ops
<1>2. ASSUME UNCHANGED <<user, tries>>, req'[r].op # "countFailure"
      PROVE  Mildly(r)
  BY <1>0, <1>2 DEF Mildly, Mild
<1>3. ASSUME \/ OpenSession(r)  \/ CloseInvites(r)  \/ CreateInvite(r)
             \/ CloseInvite(r)  \/ CloseResets(r)  \/ CreateReset(r)
             \/ CloseReset(r)  \/ EndSessions(r)  \/ Consume(r)
      PROVE  Mildly(r)
  BY <1>1, <1>2, <1>3
  DEF OpenSession, CloseInvites, CreateInvite, CloseInvite, CloseResets,
      CreateReset, CloseReset, EndSessions, Consume, history
<1>4. CASE Match(r)
  <2>1. req'[r].op # "countFailure"
    <3>1. ASSUME NEW u \in Users,
                 req' = [req EXCEPT ![r].op = "activate", ![r].user = u,
                                    ![r].via = "sso", ![r].count = chosen[u]]
          PROVE  req'[r].op = "activate"
      BY <1>0, <3>1 DEF TypeInv, RequestTypes, Request
    <3> QED BY <1>1, <1>4, <3>1 DEF Match
  <2> QED BY <1>2, <1>4, <2>1 DEF Match, history
<1>5. ASSUME \/ EnableMfa(r)  \/ DisableMfa(r) PROVE Mildly(r)
  <2>1. \A v \in Users : /\ tries'[v] = tries[v]
                         /\ user'[v].failures = user[v].failures
                         /\ user'[v].until = user[v].until
    BY <1>0, <1>5
    DEF EnableMfa, DisableMfa, TypeInv, UserTypes, User, history
  <2>2. req'[r].op # "countFailure"
    BY <1>1, <1>5 DEF EnableMfa, DisableMfa
  <2> QED BY <1>0, <2>1, <2>2 DEF Mildly, Mild
<1>6. ASSUME \A v \in Users :
               \/ tries'[v] = 0
               \/ /\ tries'[v] = tries[v]
                  /\ user'[v].failures = user[v].failures
                  /\ user'[v].until = user[v].until,
             req'[r].op # "countFailure"
      PROVE  Mildly(r)
  BY <1>0, <1>6 DEF Mildly, Mild
<1>7. CASE Activate(r)
  <2>1. q.user \in Users
    BY <1>0, <1>7 DEF Activate, Pending, Formed, Ops
  <2> QED
    BY <1>0, <1>1, <1>6, <1>7, <2>1, UnlockedRow, KeptRow, MilderWrite
    DEF Activate
<1>8. CASE WriteInvited(r)
  <2> DEFINE a == [user[q.user] EXCEPT !.status = "invited"]
             b == [a EXCEPT !.password = 0]
  <2>1. q.user \in Users /\ "invited" \in Statuses
    BY <1>0, <1>8 DEF WriteInvited, Pending, Formed, Ops, Statuses
  <2>2. /\ a \in User /\ a.failures = user[q.user].failures
        /\ a.until = user[q.user].until
    BY <1>0, <2>1, Column, KeptRow
  <2> HIDE DEF a
  <2>3. b \in User /\ b.failures = a.failures /\ b.until = a.until
    BY <2>2, Column, Zero DEF User
  <2>4. \/ UNCHANGED <<user, tries>>
        \/ Write(q.user, b)
    BY <1>8 DEF WriteInvited, a
  <2> HIDE DEF b
  <2>5. req'[r].op # "countFailure"
    BY <1>1, <1>8 DEF WriteInvited
  <2> QED BY <1>2, <1>6, <2>1, <2>2, <2>3, <2>4, <2>5, MilderWrite
<1>9. ASSUME AcceptPassword(r) \/ ResetPassword(r) PROVE Mildly(r)
  <2>1. q.user \in Users
    BY <1>0, <1>9
    DEF AcceptPassword, ResetPassword, Pending, Formed, Ops
  <2>2. WritePassword(q.user, Unlocked(user[q.user]))
    BY <1>9 DEF AcceptPassword, ResetPassword
  <2>3. req'[r].op # "countFailure"
    BY <1>0, <1>9
    DEF AcceptPassword, ResetPassword, TypeInv, RequestTypes, Request
  <2> QED
    BY <1>0, <1>6, <2>1, <2>2, <2>3, UnlockedRow, KeptRow, KeptPassword
<1> QED
  BY <1>3, <1>4, <1>5, <1>7, <1>8, <1>9 DEF Step

LEMMA StartCount ==
  ASSUME TypeInv, TypeInv', CountInv, NEW r \in Requests, Start(r)
  PROVE  CountInv'
<1>0. /\ req[r] = Idle
      /\ \A s \in Requests \ {r} : req'[s] = req[s]
  BY StartFrame
<1>1. ASSUME NEW u \in Users, WrongPassword(r, u) PROVE CountInv'
  <2> DEFINE n == IF user[u].failures < MaxFailed
                  THEN user[u].failures + 1 ELSE MaxFailed
  <2>1. /\ req'[r].op = "countFailure" /\ req'[r].user = u /\ req'[r].count = n
        /\ ~user[u].until
        /\ UNCHANGED <<user, tries>>
    BY <1>1
    DEF WrongPassword, Serve, Idle, CanLogIn, TypeInv, RequestTypes, history
  <2>2. tries[u] < n
    <3>1. /\ user[u].failures \in 0..MaxFailed /\ tries[u] \in Nat
          /\ MaxFailed \in Nat \ {0}
      BY NumbersAssumption DEF TypeInv, UserTypes, User
    <3> QED BY <2>1, <3>1 DEF CountInv, Counted
  <2>3. CountReady(req[r])'
    BY <2>1, <2>2 DEF CountReady
  <2>4. \A s \in Requests : CountReady(req[s])'
    BY <1>0, <2>1, <2>3 DEF CountInv, CountReady
  <2> QED BY <2>1, <2>4 DEF CountInv, Counted
<1>2. ASSUME \A u \in Users : ~WrongPassword(r, u) PROVE CountInv'
  BY <1>2, StartMild, Milder DEF Mildly, Mild
<1> QED BY <1>1, <1>2

LEMMA StepCount ==
  ASSUME TypeInv, TypeInv', CountInv, NEW r \in Requests, Step(r),
         \A s \in Requests \ {r} : req[s] = Idle
  PROVE  CountInv'
<1> DEFINE q == req[r]
<1>0. /\ q \in Request /\ Formed(q) /\ CountReady(q)
      /\ \A u \in Users : user[u] \in User
  BY DEF TypeInv, RequestTypes, UserTypes, CountInv
<1>1. CASE CountFailure(r)
  <2> DEFINE u == q.user
  <2>1. u \in Users /\ q.count \in 0..MaxFailed /\ tries[u] < q.count
    BY <1>0, <1>1, NumbersAssumption
    DEF CountFailure, Pending, Formed, Ops, Request, CountReady
  <2>2. /\ tries' = [tries EXCEPT ![u] = @ + 1]
        /\ user'[u].failures = q.count
        /\ user'[u].until = (q.count = MaxFailed)
        /\ \A v \in Users \ {u} : user'[v] = user[v]
    BY <1>0, <1>1, <2>1 DEF CountFailure, TypeInv, UserTypes, User
  <2>3. \A v \in Users : Counted(v)'
    BY <2>1, <2>2 DEF CountInv, Counted, TypeInv, UserTypes, User
  <2>4. \A s \in Requests : req'[s] = Idle
    BY <1>0, <1>1 DEF CountFailure, Finish, TypeInv, RequestTypes
  <2>5. \A s \in Requests : CountReady(req[s])'
    BY <2>4, NoneAssumption DEF CountReady, Idle, Ops
  <2> QED BY <2>3, <2>5 DEF CountInv
<1>2. CASE ~CountFailure(r)
  BY <1>2, StepMild, Milder DEF Mildly, Mild
<1> QED BY <1>1, <1>2

(* Passwords that are kept, chosen anew, or taken away.                    *)
Newer(u) ==
  /\ chosen'[u] >= chosen[u]
  /\ \/ user'[u].password = 0  \/ user'[u].password = chosen'[u]
     \/ user'[u].password = user[u].password /\ chosen'[u] = chosen[u]

LEMMA NewerWrite ==
  ASSUME TypeInv, NEW u \in Users, NEW row \in User, Write(u, row),
         row.password = 0 \/ row.password = user[u].password, UNCHANGED chosen
  PROVE  \A v \in Users : Newer(v)
BY DEF Newer, Write, TypeInv, UserTypes, User

LEMMA NewerPassword ==
  ASSUME TypeInv, NEW u \in Users, NEW row \in User, WritePassword(u, row)
  PROVE  \A v \in Users : Newer(v)
<1> DEFINE p == [row EXCEPT !.password = chosen[u] + 1]
<1>1. /\ user' = [user EXCEPT ![u] = p]
      /\ chosen' = [chosen EXCEPT ![u] = @ + 1]
      /\ p.password = chosen[u] + 1
  BY DEF WritePassword, Write, User
<1> HIDE DEF p
<1> QED BY <1>1 DEF Newer, TypeInv, UserTypes

LEMMA SamePassword ==
  ASSUME NEW row \in User
  PROVE  /\ Unlocked(row).password = row.password
         /\ \A s \in Statuses : [row EXCEPT !.status = s].password
                                  = row.password
         /\ \A s \in Statuses : [NewUser EXCEPT !.status = s].password = 0
BY DEF Unlocked, NewUser, User

LEMMA Passwordly ==
  ASSUME TypeInv, TypeInv', PasswordInv, UNCHANGED floor,
         sessions' \subseteq sessions, \A u \in Users : Newer(u),
         NEW r \in Requests, \A s \in Requests \ {r} : req'[s] = Idle,
         PasswordReady(req[r])'
  PROVE  PasswordInv'
<1>1. \A u \in Users : Current(u)'
  BY DEF PasswordInv, Current, Newer, TypeInv, UserTypes, SessionTypes, User
<1>2. \A s \in sessions' : Recent(s)'
  BY DEF PasswordInv, Recent
<1>3. \A s \in Requests : PasswordReady(req[s])'
  BY NoneAssumption DEF PasswordReady, Idle, Ops
<1> QED BY <1>1, <1>2, <1>3 DEF PasswordInv

LEMMA StartPasswords ==
  ASSUME TypeInv, TypeInv', PasswordInv, NEW r \in Requests, Start(r),
         \A s \in Requests \ {r} : req[s] = Idle
  PROVE  PasswordInv'
<1>0. /\ req[r] = Idle
      /\ \A s \in Requests \ {r} : req'[s] = Idle
      /\ \A u \in Users : user[u] \in User
  BY StartFrame DEF TypeInv, UserTypes
<1>1. ASSUME UNCHANGED <<sessions, floor, chosen>>,
             \A u \in Users : user'[u].password = user[u].password,
             PasswordReady(req[r])'
      PROVE  PasswordInv'
  <2>1. \A u \in Users : Newer(u)
    BY <1>1 DEF Newer, TypeInv, UserTypes
  <2> QED BY <1>0, <1>1, <2>1, Passwordly
<1>2. ASSUME NEW q, Serve(r, q),
             q.op \in Ops \ {"closeInvite", "activate", "open", "closeReset",
                             "endSessions"},
             UNCHANGED <<user, sessions, floor, chosen>>
      PROVE  PasswordInv'
  BY <1>1, <1>2 DEF Serve, PasswordReady, TypeInv, RequestTypes
<1>3. ASSUME NEW u \in Users,
             \/ WrongPassword(r, u)
             \/ ConfirmMfaSetup(r, u)  \/ StartDisableMfa(r, u)
             \/ StartInvite(r, u)  \/ StartReset(r, u)
      PROVE  PasswordInv'
  BY <1>2, <1>3
  DEF WrongPassword, ConfirmMfaSetup, StartDisableMfa, StartInvite, StartReset,
      Idle, history, Ops
<1>4. ASSUME \/ \E i \in Invites : StartAccept(r, i)
             \/ \E t \in Resets : StartConfirm(r, t)
             \/ \E s \in Logins : StartCallback(r, s)
      PROVE  PasswordInv'
  BY <1>2, <1>4
  DEF StartAccept, StartConfirm, StartCallback, Idle, history, Ops
<1>5. ASSUME NEW u \in Users, RightPassword(r, u) PROVE PasswordInv'
  <2>1. /\ req'[r].op = "activate" /\ req'[r].user = u
        /\ req'[r].count = user[u].password /\ user[u].password # 0
        /\ UNCHANGED <<user, sessions, floor, chosen>>
    BY <1>5
    DEF RightPassword, Serve, Idle, CanLogIn, TypeInv, RequestTypes, history
  <2>2. user[u].password >= floor[u]
    BY <2>1 DEF PasswordInv, Current, TypeInv, UserTypes, SessionTypes
  <2> QED BY <1>1, <2>1, <2>2 DEF PasswordReady
<1>6. ASSUME NEW c \in challenges, VerifyMfa(r, c) PROVE PasswordInv'
  <2>1. /\ req'[r].op = "activate" /\ req'[r].via = "code"
        /\ UNCHANGED <<user, sessions, floor, chosen>>
    BY <1>6
    DEF VerifyMfa, Serve, Idle, TypeInv, RequestTypes, history
  <2> QED BY <1>1, <2>1 DEF PasswordReady
<1>7. ASSUME UNCHANGED <<req, sessions, floor>>, \A u \in Users : Newer(u)
      PROVE  PasswordInv'
  <2>1. PasswordReady(req[r])'
    BY <1>0, <1>7, NoneAssumption DEF PasswordReady, Idle, Ops
  <2> QED BY <1>0, <1>7, <2>1, Passwordly
<1>8. ASSUME \/ \E u \in Users : Challenge(r, u)  \/ StartMfaSetup(r, u)
             \/ \E s \in Logins : StartLogin(r, s)
      PROVE  PasswordInv'
  <2>1. ASSUME NEW u \in Users, StartMfaSetup(r, u)
        PROVE  \A v \in Users : user'[v].password = user[v].password
    BY <1>0, <2>1 DEF StartMfaSetup, TypeInv, UserTypes, User
  <2>2. req'[r] = Idle
    BY <1>0, <1>8 DEF Challenge, StartMfaSetup, StartLogin
  <2>3. PasswordReady(req[r])'
    BY <2>2, NoneAssumption DEF PasswordReady, Idle, Ops
  <2> QED
    BY <1>1, <1>8, <2>1, <2>3 DEF Challenge, StartMfaSetup, StartLogin, history
<1>9. ASSUME NEW u \in Users, CreateUser(r, u) PROVE PasswordInv'
  BY <1>7, <1>9, NewRow, NewerPassword DEF CreateUser, Statuses
<1>10. ASSUME NEW u \in Users, Reactivate(r, u) PROVE PasswordInv'
  BY <1>0, <1>7, <1>10, UnlockedRow, SamePassword, NewerWrite DEF Reactivate
<1>11. ASSUME NEW u \in Users, NEW s \in Statuses, UpdateStatus(r, u, s)
       PROVE  PasswordInv'
  BY <1>0, <1>7, <1>11, Column, SamePassword, NewerWrite DEF UpdateStatus
<1>12. ASSUME NEW u \in Users, NEW s \in Statuses, UpdatePassword(r, u, s)
       PROVE  PasswordInv'
  BY <1>0, <1>7, <1>12, UnlockedRow, NewerPassword DEF UpdatePassword
<1>13. ASSUME NEW u \in Users, NEW s \in Statuses, Provision(r, u, s)
       PROVE  PasswordInv'
  BY <1>0, <1>7, <1>13, NewRow, SamePassword, NewerWrite DEF Provision
<1> QED
  BY <1>3, <1>4, <1>5, <1>6, <1>8, <1>9, <1>10, <1>11, <1>12, <1>13
  DEF Start, SamlStart, Acs, Deactivate, Statuses

LEMMA StepPasswords ==
  ASSUME TypeInv, TypeInv', PasswordInv, NEW r \in Requests, Step(r),
         \A s \in Requests \ {r} : req[s] = Idle
  PROVE  PasswordInv'
<1> DEFINE q == req[r]
<1>0. /\ \A s \in Requests \ {r} : req'[s] = Idle
      /\ q \in Request /\ Formed(q) /\ PasswordReady(q)
      /\ \A u \in Users : user[u] \in User
  BY StepFrame DEF TypeInv, RequestTypes, UserTypes, PasswordInv
<1>1. /\ \A o : Then(r, o) => /\ req'[r].op = o
                              /\ req'[r].user = q.user
                              /\ req'[r].count = q.count
                              /\ req'[r].via = q.via
      /\ Finish(r) => req'[r] = Idle
  BY <1>0 DEF Then, Finish, TypeInv, RequestTypes, Request
<1>2. PasswordReady(Idle)'
  BY NoneAssumption DEF PasswordReady, Idle, Ops
<1>3. ASSUME UNCHANGED <<sessions, floor, chosen>>,
             \A u \in Users : user'[u].password = user[u].password,
             PasswordReady(req[r])'
      PROVE  PasswordInv'
  <2>1. \A u \in Users : Newer(u)
    BY <1>3 DEF Newer, TypeInv, UserTypes
  <2> QED BY <1>0, <1>3, <2>1, Passwordly
<1>4. ASSUME \/ CloseInvites(r)  \/ CreateInvite(r)
             \/ CloseResets(r)  \/ CreateReset(r)  \/ Consume(r)
      PROVE  PasswordInv'
  <2>1. \/ req'[r] = Idle
        \/ req'[r].op \in {"createInvite", "createReset", "match"}
    BY <1>1, <1>4
    DEF CloseInvites, CreateInvite, CloseResets, CreateReset, Consume
  <2>2. PasswordReady(req[r])'
    BY <1>2, <2>1 DEF PasswordReady
  <2> QED
    BY <1>3, <1>4, <2>2
    DEF CloseInvites, CreateInvite, CloseResets, CreateReset, Consume, history
<1>5. ASSUME \/ CountFailure(r)  \/ EnableMfa(r)  \/ DisableMfa(r)
      PROVE  PasswordInv'
  <2>1. \A u \in Users : user'[u].password = user[u].password
    BY <1>0, <1>5
    DEF CountFailure, EnableMfa, DisableMfa, TypeInv, UserTypes, User
  <2>2. req'[r] = Idle
    BY <1>1, <1>5 DEF CountFailure, EnableMfa, DisableMfa
  <2> QED
    BY <1>2, <1>3, <1>5, <2>1, <2>2
    DEF CountFailure, EnableMfa, DisableMfa, history
<1>6. ASSUME \/ CloseInvite(r)  \/ CloseReset(r) PROVE PasswordInv'
  <2>1. UNCHANGED <<user, sessions, floor, chosen>>
    BY <1>6 DEF CloseInvite, CloseReset, history
  <2>2. PasswordReady(req[r])'
    BY <1>0, <1>1, <1>6, <2>1 DEF CloseInvite, CloseReset, Pending, PasswordReady
  <2> QED BY <1>3, <2>1, <2>2
<1>7. CASE Activate(r)
  <2>1. q.user \in Users
    BY <1>0, <1>7 DEF Activate, Pending, Formed, Ops
  <2>2. \A v \in Users : Newer(v)
    BY <1>0, <1>7, <2>1, UnlockedRow, SamePassword, NewerWrite DEF Activate
  <2>3. PasswordReady(req[r])'
    BY <1>0, <1>1, <1>7 DEF Activate, Pending, PasswordReady
  <2> QED BY <1>0, <1>7, <2>2, <2>3, Passwordly DEF Activate
<1>8. CASE WriteInvited(r)
  <2> DEFINE a == [user[q.user] EXCEPT !.status = "invited"]
             b == [a EXCEPT !.password = 0]
  <2>1. q.user \in Users /\ "invited" \in Statuses
    BY <1>0, <1>8 DEF WriteInvited, Pending, Formed, Ops, Statuses
  <2>2. a \in User
    BY <1>0, <2>1, Column
  <2> HIDE DEF a
  <2>3. b \in User /\ b.password = 0
    BY <2>2, Column, Zero DEF User
  <2>4. \/ UNCHANGED <<user, tries>>
        \/ Write(q.user, b)
    BY <1>8 DEF WriteInvited, a
  <2> HIDE DEF b
  <2>5. req'[r] = Idle \/ req'[r].op = "closeInvites"
    BY <1>1, <1>8 DEF WriteInvited
  <2>6. PasswordReady(req[r])'
    BY <1>2, <2>5 DEF PasswordReady
  <2>7. CASE UNCHANGED <<user, tries>>
    BY <1>3, <1>8, <2>6, <2>7 DEF WriteInvited
  <2>8. CASE Write(q.user, b)
    <3>1. \A v \in Users : Newer(v)
      BY <1>8, <2>1, <2>3, <2>8, NewerWrite DEF WriteInvited
    <3> QED BY <1>0, <1>8, <2>6, <3>1, Passwordly DEF WriteInvited
  <2> QED BY <2>4, <2>7, <2>8
<1>9. ASSUME AcceptPassword(r) \/ ResetPassword(r) PROVE PasswordInv'
  <2>1. q.user \in Users
    BY <1>0, <1>9
    DEF AcceptPassword, ResetPassword, Pending, Formed, Ops
  <2>2. WritePassword(q.user, Unlocked(user[q.user]))
    BY <1>9 DEF AcceptPassword, ResetPassword
  <2>3. \A v \in Users : Newer(v)
    BY <1>0, <2>1, <2>2, UnlockedRow, NewerPassword
  <2>4. /\ req'[r].op \in {"closeInvite", "closeReset"}
        /\ req'[r].user = q.user
        /\ req'[r].count = chosen[q.user] + 1
        /\ UNCHANGED <<sessions, floor>>
    BY <1>0, <1>9
    DEF AcceptPassword, ResetPassword, TypeInv, RequestTypes, Request
  <2>5. chosen'[q.user] = chosen[q.user] + 1
    BY <2>1, <2>2 DEF WritePassword, TypeInv, UserTypes
  <2>6. /\ floor[q.user] <= chosen[q.user] + 1
        /\ floor[q.user] \in Nat /\ chosen[q.user] \in Nat
    BY <2>1 DEF PasswordInv, Current, TypeInv, UserTypes, SessionTypes
  <2>7. PasswordReady(req[r])'
    BY <2>4, <2>5, <2>6 DEF PasswordReady
  <2> QED BY <1>0, <2>3, <2>4, <2>7, Passwordly
<1>10. CASE Match(r)
  <2>1. UNCHANGED <<user, sessions, floor, chosen>>
    BY <1>10 DEF Match, history
  <2>2. ASSUME NEW u \in Users,
               req' = [req EXCEPT ![r].op = "activate", ![r].user = u,
                                  ![r].via = "sso", ![r].count = chosen[u]]
        PROVE  PasswordReady(req[r])'
    <3>1. /\ req'[r].op = "activate" /\ req'[r].user = u
          /\ req'[r].count = chosen[u]
      BY <1>0, <2>2 DEF TypeInv, RequestTypes, Request
    <3>2. chosen[u] >= floor[u]
      BY DEF PasswordInv, Current, TypeInv, UserTypes, SessionTypes
    <3> QED BY <2>1, <3>1, <3>2 DEF PasswordReady
  <2>3. PasswordReady(req[r])'
    BY <1>1, <1>2, <1>10, <2>2 DEF Match
  <2> QED BY <1>3, <2>1, <2>3
<1>11. CASE OpenSession(r)
  <2> DEFINE n == [user |-> q.user, via |-> q.via, password |-> q.count]
  <2>1. /\ sessions' = sessions \union {n} /\ req'[r] = Idle
        /\ UNCHANGED <<user, floor, chosen>>
        /\ q.op = "open"
    BY <1>1, <1>11 DEF OpenSession, Pending
  <2>2. n.password >= floor[n.user] \/ n.via = "code"
    BY <1>0, <2>1 DEF PasswordReady
  <2> HIDE DEF n
  <2>3. \A s \in sessions' : Recent(s)'
    BY <2>1, <2>2 DEF PasswordInv, Recent
  <2>4. \A s \in Requests : PasswordReady(req[s])'
    BY <1>0, <1>2, <2>1
  <2> QED BY <2>1, <2>3, <2>4 DEF PasswordInv, Current
<1>12. CASE EndSessions(r)
  <2>1. /\ sessions' = {s \in sessions : s.user # q.user} /\ req'[r] = Idle
        /\ UNCHANGED <<user, chosen>>
        /\ floor' = [floor EXCEPT ![q.user] = q.count]
        /\ q.count <= chosen[q.user]
    BY <1>0, <1>1, <1>12 DEF EndSessions, Pending, PasswordReady
  <2>2. \A s \in sessions' : Recent(s)'
    BY <2>1 DEF PasswordInv, Recent, TypeInv, SessionTypes
  <2>3. \A u \in Users : Current(u)'
    BY <2>1 DEF PasswordInv, Current, TypeInv, SessionTypes
  <2>4. \A s \in Requests : PasswordReady(req[s])'
    BY <1>0, <1>2, <2>1
  <2> QED BY <2>2, <2>3, <2>4 DEF PasswordInv
<1> QED
  BY <1>4, <1>5, <1>6, <1>7, <1>8, <1>9, <1>10, <1>11, <1>12 DEF Step

(* Tokens are only closed.                                                 *)
Closing(before, after) ==
  /\ DOMAIN after = DOMAIN before
  /\ \A k \in DOMAIN before : after[k].state = "open" => after[k] = before[k]

LEMMA SoleKept ==
  ASSUME NEW before, NEW after, Sole(before), Closing(before, after)
  PROVE  Sole(after)
BY DEF Sole, Closing

LEMMA Tokenly ==
  ASSUME TypeInv, TokenInv, UNCHANGED opened,
         Closing(invite, invite'), Closing(reset, reset'),
         NEW r \in Requests,
         \A s \in Requests \ {r} : req'[s] \in {Idle, req[s]},
         TokenReady(req[r])'
  PROVE  TokenInv'
<1>1. Sole(invite') /\ Sole(reset')
  BY SoleKept DEF TokenInv
<1>2. \A s \in Requests \ {r} : TokenReady(req[s])'
  <2>1. \A u : /\ NoneOpen(invite, u) => NoneOpen(invite, u)'
               /\ NoneOpen(reset, u) => NoneOpen(reset, u)'
    BY DEF NoneOpen, Closing
  <2>2. TokenReady(Idle)'
    BY NoneAssumption, IdleCarries DEF TokenReady, Idle, Ops
  <2>3. \A s \in Requests : TokenReady(req[s]) => TokenReady(req[s])'
          \/ req'[s] # req[s]
    BY <2>1 DEF TokenReady
  <2> QED BY <2>2, <2>3 DEF TokenInv
<1> QED BY <1>1, <1>2 DEF TokenInv

LEMMA Unclosed ==
  /\ UNCHANGED invite => Closing(invite, invite')
  /\ UNCHANGED reset => Closing(reset, reset')
BY DEF Closing

LEMMA ClosedRows ==
  ASSUME NEW K, NEW rows \in [K -> Token], NEW u
  PROVE  Closing(rows, Close(rows, u)) /\ NoneOpen(Close(rows, u), u)
<1>1. /\ DOMAIN Close(rows, u) = K
      /\ \A k \in K : Close(rows, u)[k] =
           IF rows[k].user = u THEN [rows[k] EXCEPT !.state = "closed"]
           ELSE rows[k]
  BY DEF Close
<1>2. \A k \in K : [rows[k] EXCEPT !.state = "closed"].state = "closed"
  BY DEF Token
<1> QED BY <1>1, <1>2 DEF Closing, NoneOpen

LEMMA StartSole ==
  ASSUME TypeInv, InviteInv, TokenInv, NEW r \in Requests, Start(r),
         \A s \in Requests \ {r} : req[s] = Idle
  PROVE  TokenInv'
<1>0. /\ req[r] = Idle
      /\ \A s \in Requests \ {r} : req'[s] \in {Idle, req[s]}
  BY StartFrame
<1>1. ASSUME NEW q, Serve(r, q), UNCHANGED <<tokens, opened>>,
             q.op \notin {"createInvite", "createReset"},
             \A i \in Invites : Accepts(q, i) => opened[i] = 0
      PROVE  TokenInv'
  <2>1. TokenReady(req[r])'
    BY <1>1 DEF Serve, TokenReady, TypeInv, RequestTypes
  <2> QED BY <1>0, <1>1, <2>1, Unclosed, Tokenly DEF tokens
<1>2. ASSUME UNCHANGED <<req, invite, reset, opened>> PROVE TokenInv'
  <2>1. TokenReady(req[r])'
    BY <1>2 DEF TokenInv, TokenReady, NoneOpen
  <2> QED BY <1>0, <1>2, <2>1, Unclosed, Tokenly
<1>3. ASSUME NEW q, Serve(r, q), UNCHANGED <<tokens, opened>>,
             q.op \notin {"createInvite", "createReset"},
             q.item = None \/ q.op \in {"resetPassword", "consume"}
      PROVE  TokenInv'
  <2>1. \A i \in Invites : ~Accepts(q, i)
    BY <1>3, TokensAssumption DEF Accepts
  <2> QED BY <1>1, <1>3, <2>1
<1>4. ASSUME NEW u \in Users,
             \/ WrongPassword(r, u)  \/ RightPassword(r, u)
             \/ ConfirmMfaSetup(r, u)  \/ StartDisableMfa(r, u)
             \/ StartInvite(r, u)  \/ StartReset(r, u)
      PROVE  TokenInv'
  BY <1>3, <1>4
  DEF WrongPassword, RightPassword, ConfirmMfaSetup, StartDisableMfa,
      StartInvite, StartReset, Idle, history
<1>5. ASSUME NEW c \in challenges, VerifyMfa(r, c) PROVE TokenInv'
  BY <1>3, <1>5 DEF VerifyMfa, Idle, history
<1>6. ASSUME \/ \E t \in Resets : StartConfirm(r, t)
             \/ \E s \in Logins : StartCallback(r, s)
      PROVE  TokenInv'
  BY <1>3, <1>6 DEF StartConfirm, StartCallback, Idle, history
<1>7. ASSUME NEW i \in Invites, StartAccept(r, i) PROVE TokenInv'
  <2> DEFINE q == [Idle EXCEPT !.op = "acceptPassword", !.via = "invite",
                     !.user = invite[i].user, !.item = i]
  <2>1. q.op = "acceptPassword" /\ q.item = i /\ Serve(r, q)
    BY <1>7 DEF StartAccept, Idle
  <2> HIDE DEF q
  <2>2. opened[i] = 0
    BY <1>7 DEF StartAccept, InviteInv
  <2>3. \A j \in Invites : Accepts(q, j) => opened[j] = 0
    BY <2>1, <2>2 DEF Accepts
  <2> QED BY <1>1, <1>7, <2>1, <2>3 DEF StartAccept, history
<1>8. ASSUME \/ \E u \in Users :
                  \/ Challenge(r, u)  \/ StartMfaSetup(r, u)
                  \/ CreateUser(r, u)  \/ Reactivate(r, u)
                  \/ \E s \in Statuses :
                       \/ UpdateStatus(r, u, s)  \/ UpdatePassword(r, u, s)
                       \/ Provision(r, u, s)
             \/ \E s \in Logins : StartLogin(r, s)
      PROVE  TokenInv'
  BY <1>2, <1>8
  DEF Challenge, StartMfaSetup, CreateUser, Reactivate, UpdateStatus,
      UpdatePassword, Provision, StartLogin, tokens, history
<1> QED
  BY <1>4, <1>5, <1>6, <1>7, <1>8
  DEF Start, SamlStart, Acs, Deactivate, Statuses

LEMMA StepSole ==
  ASSUME TypeInv, TokenInv, NEW r \in Requests, Step(r),
         \A s \in Requests \ {r} : req[s] = Idle
  PROVE  TokenInv'
<1> DEFINE q == req[r]
<1>0. /\ \A s \in Requests \ {r} : req'[s] \in {Idle, req[s]}
      /\ q \in Request /\ Formed(q) /\ TokenReady(q)
  BY StepFrame DEF TypeInv, RequestTypes, TokenInv
<1>1. /\ \A o : Then(r, o) => /\ req'[r].op = o
                              /\ req'[r].user = q.user
                              /\ req'[r].item = q.item
      /\ Finish(r) => req'[r] = Idle
  BY <1>0 DEF Then, Finish, TypeInv, RequestTypes, Request
<1>2. TokenReady(Idle)'
  BY NoneAssumption, IdleCarries DEF TokenReady, Idle, Ops
<1>3. ASSUME UNCHANGED <<invite, reset, opened>>, TokenReady(req[r])'
      PROVE  TokenInv'
  BY <1>0, <1>3, Unclosed, Tokenly
<1>4. ASSUME \/ CountFailure(r)  \/ EnableMfa(r)  \/ DisableMfa(r)
             \/ EndSessions(r)
      PROVE  TokenInv'
  BY <1>1, <1>2, <1>3, <1>4
  DEF CountFailure, EnableMfa, DisableMfa, EndSessions, tokens, history
<1>5. ASSUME \/ Activate(r)  \/ WriteInvited(r)  \/ Consume(r)
      PROVE  TokenInv'
  <2>1. \/ req'[r] = Idle
        \/ req'[r].op \in {"closeInvites", "match"}
        \/ req'[r].op = "open" /\ q.op = "activate" /\ req'[r].item = q.item
    BY <1>1, <1>5 DEF Activate, WriteInvited, Consume, Pending
  <2>2. UNCHANGED <<invite, reset, opened>>
    BY <1>5 DEF Activate, WriteInvited, Consume, tokens, history
  <2>3. TokenReady(req[r])'
    BY <1>0, <1>2, <2>1, <2>2 DEF TokenReady, Accepts
  <2> QED BY <1>3, <2>2, <2>3
<1>6. ASSUME AcceptPassword(r) \/ ResetPassword(r) PROVE TokenInv'
  <2>1. /\ req'[r].item = q.item
        /\ \/ req'[r].op = "closeInvite" /\ q.op = "acceptPassword"
           \/ req'[r].op = "closeReset"
        /\ UNCHANGED <<invite, reset, opened>>
    BY <1>0, <1>6
    DEF AcceptPassword, ResetPassword, Pending, TypeInv, RequestTypes, Request,
        tokens
  <2>2. TokenReady(req[r])'
    BY <1>0, <2>1 DEF TokenReady, Accepts
  <2> QED BY <1>3, <2>1, <2>2
<1>7. CASE Match(r)
  <2>1. UNCHANGED <<invite, reset, opened>>
    BY <1>7 DEF Match, tokens, history
  <2>2. ASSUME NEW u \in Users,
               req' = [req EXCEPT ![r].op = "activate", ![r].user = u,
                                  ![r].via = "sso", ![r].count = chosen[u]]
        PROVE  TokenReady(req[r])'
    <3>1. req'[r].op = "activate" /\ req'[r].item = q.item
      BY <1>0, <2>2 DEF TypeInv, RequestTypes, Request
    <3>2. q.item \in Logins
      BY <1>0, <1>7 DEF Match, Pending, Formed
    <3> QED BY <3>1, <3>2, TokensAssumption DEF TokenReady, Accepts
  <2>3. TokenReady(req[r])'
    BY <1>1, <1>2, <1>7, <2>2 DEF Match
  <2> QED BY <1>3, <2>1, <2>3
<1>8. CASE CloseInvite(r)
  <2>1. Closing(invite, invite')
    BY <1>8 DEF CloseInvite, Closing, TypeInv, TokenTypes, Token
  <2>2. /\ req'[r].item = q.item /\ req'[r].op = "activate"
        /\ q.op = "closeInvite" /\ UNCHANGED <<reset, opened>>
    BY <1>1, <1>8 DEF CloseInvite, Pending, history
  <2>3. TokenReady(req[r])'
    BY <1>0, <2>2 DEF TokenReady, Accepts
  <2> QED BY <1>0, <2>1, <2>2, <2>3, Unclosed, Tokenly
<1>9. CASE CloseReset(r)
  <2>1. Closing(reset, reset')
    BY <1>9 DEF CloseReset, Closing, TypeInv, TokenTypes, Token
  <2>2. req'[r].op = "endSessions" /\ UNCHANGED <<invite, opened>>
    BY <1>1, <1>9 DEF CloseReset, history
  <2>3. TokenReady(req[r])'
    BY <2>2 DEF TokenReady, Accepts
  <2> QED BY <1>0, <2>1, <2>2, <2>3, Unclosed, Tokenly
<1>10. CASE CloseInvites(r)
  <2>1. Closing(invite, invite') /\ NoneOpen(invite', q.user)
    BY <1>10, ClosedRows DEF CloseInvites, TypeInv, TokenTypes
  <2>2. /\ req'[r].op = "createInvite" /\ req'[r].user = q.user
        /\ UNCHANGED <<reset, opened>>
    BY <1>1, <1>10 DEF CloseInvites, history
  <2>3. TokenReady(req[r])'
    BY <2>1, <2>2 DEF TokenReady, Accepts
  <2> QED BY <1>0, <2>1, <2>2, <2>3, Unclosed, Tokenly
<1>11. CASE CloseResets(r)
  <2>1. Closing(reset, reset') /\ NoneOpen(reset', q.user)
    BY <1>11, ClosedRows DEF CloseResets, TypeInv, TokenTypes
  <2>2. /\ req'[r].op = "createReset" /\ req'[r].user = q.user
        /\ UNCHANGED <<invite, opened>>
    BY <1>1, <1>11 DEF CloseResets, history
  <2>3. TokenReady(req[r])'
    BY <2>1, <2>2 DEF TokenReady, Accepts
  <2> QED BY <1>0, <2>1, <2>2, <2>3, Unclosed, Tokenly
<1>12. ASSUME \A s \in Requests : req'[s] = Idle
       PROVE  \A s \in Requests : TokenReady(req[s])'
  BY <1>2, <1>12
<1>13. CASE CreateInvite(r)
  <2>1. NoneOpen(invite, q.user)
    BY <1>0, <1>13 DEF CreateInvite, Pending, TokenReady
  <2>2. PICK i \in Invites :
          invite' = [invite EXCEPT ![i] = [user |-> q.user, state |-> "open"]]
    BY <1>13 DEF CreateInvite
  <2>3. Sole(invite)'
    BY <2>1, <2>2 DEF TokenInv, Sole, NoneOpen, TypeInv, TokenTypes
  <2>4. /\ \A s \in Requests : req'[s] = Idle
        /\ UNCHANGED <<reset, opened>>
    BY <1>0, <1>1, <1>13 DEF CreateInvite, history
  <2> QED BY <1>12, <2>3, <2>4 DEF TokenInv, Sole
<1>14. CASE CreateReset(r)
  <2>1. NoneOpen(reset, q.user)
    BY <1>0, <1>14 DEF CreateReset, Pending, TokenReady
  <2>2. PICK t \in Resets :
          reset' = [reset EXCEPT ![t] = [user |-> q.user, state |-> "open"]]
    BY <1>14 DEF CreateReset
  <2>3. Sole(reset)'
    BY <2>1, <2>2 DEF TokenInv, Sole, NoneOpen, TypeInv, TokenTypes
  <2>4. /\ \A s \in Requests : req'[s] = Idle
        /\ UNCHANGED <<invite, opened>>
    BY <1>0, <1>1, <1>14 DEF CreateReset, history
  <2> QED BY <1>12, <2>3, <2>4 DEF TokenInv, Sole
<1>15. CASE OpenSession(r)
  <2>1. /\ \A s \in Requests : req'[s] = Idle
        /\ UNCHANGED <<invite, reset>>
        /\ q.op = "open"
        /\ opened' = IF q.item = None THEN opened
                     ELSE [opened EXCEPT ![q.item] = @ + 1]
    BY <1>0, <1>1, <1>15 DEF OpenSession, Pending, tokens
  <2>2. \A i \in Invites : opened'[i] = opened[i] \/ opened'[i] = 1
    BY <1>0, <2>1 DEF TokenReady, Accepts, TypeInv, SessionTypes
  <2> QED BY <1>12, <2>1, <2>2 DEF TokenInv, Sole
<1> QED
  BY <1>4, <1>5, <1>6, <1>7, <1>8, <1>9, <1>10, <1>11, <1>13, <1>14, <1>15
  DEF Step

(* Second factors are switched off, or proven.                             *)
LEMMA Factorly ==
  ASSUME TypeInv, FactorInv, NEW r \in Requests,
         \A u \in Users :
           \/ user'[u].mfa = FALSE
           \/ user'[u].mfa = user[u].mfa /\ (proven[u] => proven'[u])
           \/ proven'[u],
         \A s \in Requests \ {r} : req'[s] = Idle,
         FactorReady(req[r])'
  PROVE  FactorInv'
<1>1. \A u \in Users : user'[u].mfa => proven'[u]
  BY DEF FactorInv
<1>2. \A s \in Requests : FactorReady(req[s])'
  BY NoneAssumption DEF FactorReady, Idle, Ops
<1> QED BY <1>1, <1>2 DEF FactorInv

LEMMA SameFactor ==
  ASSUME NEW row \in User
  PROVE  /\ Unlocked(row).mfa = row.mfa
         /\ \A s \in Statuses : [row EXCEPT !.status = s].mfa = row.mfa
         /\ \A s \in Statuses : [Unlocked(row) EXCEPT !.status = s].mfa
                                  = row.mfa
         /\ \A s \in Statuses : [NewUser EXCEPT !.status = s].mfa = FALSE
         /\ \A p : [row EXCEPT !.password = p].mfa = row.mfa
BY DEF Unlocked, NewUser, User

LEMMA FactorWrite ==
  ASSUME TypeInv, NEW u \in Users, NEW row \in User,
         Write(u, row) \/ WritePassword(u, row),
         row.mfa = FALSE \/ row.mfa = user[u].mfa
  PROVE  \A v \in Users :
           user'[v].mfa = FALSE \/ user'[v].mfa = user[v].mfa
<1>1. [row EXCEPT !.password = chosen[u] + 1].mfa = row.mfa
  BY SameFactor
<1>2. PICK new : /\ user' = [user EXCEPT ![u] = new]
                 /\ new.mfa = row.mfa
  BY <1>1 DEF Write, WritePassword
<1> QED BY <1>2 DEF TypeInv, UserTypes

LEMMA StartFactors ==
  ASSUME TypeInv, FactorInv, NEW r \in Requests, Start(r),
         \A s \in Requests \ {r} : req[s] = Idle
  PROVE  FactorInv'
<1>0. /\ req[r] = Idle
      /\ \A s \in Requests \ {r} : req'[s] = Idle
      /\ \A u \in Users : user[u] \in User
      /\ Idle.op # "enable"
  BY StartFrame, NoneAssumption DEF TypeInv, UserTypes, Idle, Ops
<1>1. ASSUME NEW q, Serve(r, q), UNCHANGED <<user, proven>>, q.op # "enable"
      PROVE  FactorInv'
  <2>1. FactorReady(req[r])'
    BY <1>1 DEF Serve, FactorReady, TypeInv, RequestTypes
  <2> QED BY <1>0, <1>1, <2>1, Factorly
<1>2. ASSUME NEW u \in Users,
             \/ WrongPassword(r, u)  \/ RightPassword(r, u)
             \/ StartDisableMfa(r, u)  \/ StartInvite(r, u)  \/ StartReset(r, u)
      PROVE  FactorInv'
  BY <1>1, <1>2
  DEF WrongPassword, RightPassword, StartDisableMfa, StartInvite, StartReset,
      Idle, history
<1>3. ASSUME \/ \E c \in challenges : VerifyMfa(r, c)
             \/ \E i \in Invites : StartAccept(r, i)
             \/ \E t \in Resets : StartConfirm(r, t)
             \/ \E s \in Logins : StartCallback(r, s)
      PROVE  FactorInv'
  BY <1>1, <1>3
  DEF VerifyMfa, StartAccept, StartConfirm, StartCallback, Idle, history
<1>4. ASSUME NEW u \in Users, ConfirmMfaSetup(r, u) PROVE FactorInv'
  <2>1. /\ req'[r].user = u /\ UNCHANGED user
        /\ proven' = [proven EXCEPT ![u] = TRUE]
    BY <1>4 DEF ConfirmMfaSetup, Serve, Idle, TypeInv, RequestTypes
  <2>2. proven'[u] /\ \A v \in Users : proven[v] => proven'[v]
    BY <2>1 DEF TypeInv, SessionTypes
  <2>3. FactorReady(req[r])'
    BY <2>1, <2>2 DEF FactorReady
  <2> QED BY <1>0, <2>1, <2>2, <2>3, Factorly
<1>5. ASSUME UNCHANGED req,
             \A u \in Users :
               \/ user'[u].mfa = FALSE
               \/ user'[u].mfa = user[u].mfa /\ (proven[u] => proven'[u])
      PROVE  FactorInv'
  <2>1. FactorReady(req[r])'
    BY <1>0, <1>5 DEF FactorReady
  <2> QED BY <1>0, <1>5, <2>1, Factorly
<1>6. ASSUME \/ \E u \in Users : Challenge(r, u)
             \/ \E s \in Logins : StartLogin(r, s)
      PROVE  FactorInv'
  BY <1>5, <1>6 DEF Challenge, StartLogin, history
<1>7. ASSUME NEW u \in Users, StartMfaSetup(r, u) PROVE FactorInv'
  <2>1. user'[u].mfa = FALSE
    BY <1>0, <1>7 DEF StartMfaSetup, TypeInv, UserTypes, User
  <2>2. \A v \in Users \ {u} : user'[v] = user[v] /\ proven'[v] = proven[v]
    BY <1>7 DEF StartMfaSetup, TypeInv, UserTypes, SessionTypes
  <2> QED BY <1>5, <1>7, <2>1, <2>2 DEF StartMfaSetup
<1>8. ASSUME UNCHANGED <<req, proven>>, NEW u \in Users, NEW row \in User,
             Write(u, row) \/ WritePassword(u, row),
             row.mfa = FALSE \/ row.mfa = user[u].mfa
      PROVE  FactorInv'
  BY <1>5, <1>8, FactorWrite
<1>9. ASSUME NEW u \in Users, CreateUser(r, u) PROVE FactorInv'
  BY <1>0, <1>8, <1>9, NewRow, SameFactor DEF CreateUser, Statuses
<1>10. ASSUME NEW u \in Users, Reactivate(r, u) PROVE FactorInv'
  BY <1>0, <1>8, <1>10, UnlockedRow, SameFactor DEF Reactivate
<1>11. ASSUME NEW u \in Users, NEW s \in Statuses, UpdateStatus(r, u, s)
       PROVE  FactorInv'
  BY <1>0, <1>8, <1>11, Column, SameFactor DEF UpdateStatus
<1>12. ASSUME NEW u \in Users, NEW s \in Statuses, UpdatePassword(r, u, s)
       PROVE  FactorInv'
  BY <1>0, <1>8, <1>12, UnlockedRow, SameFactor DEF UpdatePassword
<1>13. ASSUME NEW u \in Users, NEW s \in Statuses, Provision(r, u, s)
       PROVE  FactorInv'
  BY <1>0, <1>8, <1>13, NewRow, SameFactor DEF Provision
<1> QED
  BY <1>2, <1>3, <1>4, <1>6, <1>7, <1>9, <1>10, <1>11, <1>12, <1>13
  DEF Start, SamlStart, Acs, Deactivate, Statuses

LEMMA StepFactors ==
  ASSUME TypeInv, FactorInv, NEW r \in Requests, Step(r),
         \A s \in Requests \ {r} : req[s] = Idle
  PROVE  FactorInv'
<1> DEFINE q == req[r]
<1>0. /\ \A s \in Requests \ {r} : req'[s] = Idle
      /\ q \in Request /\ Formed(q) /\ FactorReady(q)
      /\ \A u \in Users : user[u] \in User
      /\ Idle.op # "enable"
  BY StepFrame, NoneAssumption
  DEF TypeInv, RequestTypes, UserTypes, FactorInv, Idle, Ops
<1>1. /\ \A o : Then(r, o) => req'[r].op = o
      /\ Finish(r) => req'[r] = Idle
  BY <1>0 DEF Then, Finish, TypeInv, RequestTypes, Request
<1>2. UNCHANGED proven
  BY DEF Step, CountFailure, Activate, OpenSession, EnableMfa, DisableMfa,
     WriteInvited, CloseInvites, CreateInvite, AcceptPassword, CloseInvite,
     CloseResets, CreateReset, ResetPassword, CloseReset, EndSessions, Consume,
     Match, history
<1>3. req'[r].op # "enable"
  <2>1. ASSUME Match(r) PROVE req'[r].op # "enable"
    <3>1. ASSUME NEW u \in Users,
                 req' = [req EXCEPT ![r].op = "activate", ![r].user = u,
                                    ![r].via = "sso", ![r].count = chosen[u]]
          PROVE  req'[r].op = "activate"
      BY <1>0, <3>1 DEF TypeInv, RequestTypes, Request
    <3> QED BY <1>0, <1>1, <2>1, <3>1 DEF Match
  <2>2. ASSUME AcceptPassword(r) \/ ResetPassword(r)
        PROVE  req'[r].op # "enable"
    BY <1>0, <2>2
    DEF AcceptPassword, ResetPassword, TypeInv, RequestTypes, Request
  <2> QED
    BY <1>0, <1>1, <2>1, <2>2
    DEF Step, CountFailure, Activate, OpenSession, EnableMfa, DisableMfa,
        WriteInvited, CloseInvites, CreateInvite, CloseInvite, CloseResets,
        CreateReset, CloseReset, EndSessions, Consume
<1>4. ASSUME \A u \in Users :
               \/ user'[u].mfa = FALSE  \/ user'[u].mfa = user[u].mfa
               \/ proven[u]
      PROVE  FactorInv'
  <2>1. FactorReady(req[r])'
    BY <1>3 DEF FactorReady
  <2> QED BY <1>0, <1>2, <1>4, <2>1, Factorly
<1>5. ASSUME \/ OpenSession(r)  \/ CloseInvites(r)  \/ CreateInvite(r)
             \/ CloseInvite(r)  \/ CloseResets(r)  \/ CreateReset(r)
             \/ CloseReset(r)  \/ EndSessions(r)  \/ Consume(r)  \/ Match(r)
      PROVE  FactorInv'
  <2>1. UNCHANGED user
    BY <1>5
    DEF OpenSession, CloseInvites, CreateInvite, CloseInvite, CloseResets,
        CreateReset, CloseReset, EndSessions, Consume, Match
  <2> QED BY <1>4, <2>1
<1>6. CASE CountFailure(r)
  <2>1. \A u \in Users : user'[u].mfa = user[u].mfa
    BY <1>0, <1>6 DEF CountFailure, TypeInv, UserTypes, User
  <2> QED BY <1>4, <2>1
<1>7. CASE EnableMfa(r)
  <2>1. q.user \in Users /\ proven[q.user]
    BY <1>0, <1>7 DEF EnableMfa, Pending, Formed, FactorReady, Ops
  <2>2. \A u \in Users \ {q.user} : user'[u] = user[u]
    BY <1>7 DEF EnableMfa, TypeInv, UserTypes
  <2> QED BY <1>4, <2>1, <2>2
<1>8. CASE DisableMfa(r)
  <2>1. \A u \in Users : user'[u].mfa = FALSE \/ user'[u].mfa = user[u].mfa
    BY <1>0, <1>8 DEF DisableMfa, TypeInv, UserTypes, User
  <2> QED BY <1>4, <2>1
<1>9. ASSUME NEW u \in Users, NEW row \in User,
             Write(u, row) \/ WritePassword(u, row), row.mfa = user[u].mfa
      PROVE  FactorInv'
  BY <1>4, <1>9, FactorWrite
<1>10. ASSUME Activate(r) \/ AcceptPassword(r) \/ ResetPassword(r)
       PROVE  FactorInv'
  <2>1. q.user \in Users
    BY <1>0, <1>10
    DEF Activate, AcceptPassword, ResetPassword, Pending, Formed, Ops
  <2>2. \/ Write(q.user, Unlocked(user[q.user]))
        \/ WritePassword(q.user, Unlocked(user[q.user]))
    BY <1>10 DEF Activate, AcceptPassword, ResetPassword
  <2> QED BY <1>0, <1>9, <2>1, <2>2, UnlockedRow, SameFactor
<1>11. CASE WriteInvited(r)
  <2> DEFINE a == [user[q.user] EXCEPT !.status = "invited"]
             b == [a EXCEPT !.password = 0]
  <2>1. q.user \in Users /\ "invited" \in Statuses
    BY <1>0, <1>11 DEF WriteInvited, Pending, Formed, Ops, Statuses
  <2>2. a \in User /\ a.mfa = user[q.user].mfa
    BY <1>0, <2>1, Column, SameFactor
  <2> HIDE DEF a
  <2>3. b \in User /\ b.mfa = a.mfa
    BY <2>2, Column, SameFactor, Zero
  <2>4. UNCHANGED user \/ Write(q.user, b)
    BY <1>11 DEF WriteInvited, a
  <2> HIDE DEF b
  <2> QED BY <1>4, <1>9, <2>1, <2>2, <2>3, <2>4
<1> QED
  BY <1>5, <1>6, <1>7, <1>8, <1>10, <1>11 DEF Step

LEMMA TimeOrderly ==
  ASSUME TypeInv, TypeInv', CountInv, PasswordInv, TokenInv, FactorInv,
         \/ UNCHANGED vars
         \/ \E r \in Requests : Stop(r)
         \/ \E u \in Users : LockElapses(u)
         \/ Expire
  PROVE  CountInv' /\ PasswordInv' /\ TokenInv' /\ FactorInv'
<1> USE DEF tokens, history
<1>1. /\ \A s \in Requests : req'[s] \in {Idle, req[s]}
      /\ \A u \in Users :
           /\ user'[u].password = user[u].password
           /\ user'[u].mfa = user[u].mfa
           /\ user'[u].failures = user[u].failures
           /\ \/ tries'[u] = 0
              \/ tries'[u] = tries[u] /\ user'[u].until = user[u].until
      /\ UNCHANGED <<chosen, floor, opened, proven>>
      /\ sessions' \subseteq sessions
  BY DEF Stop, Finish, LockElapses, Expire, vars, TypeInv, UserTypes, User,
     RequestTypes
<1>2. Closing(invite, invite') /\ Closing(reset, reset')
  BY DEF Stop, LockElapses, Expire, vars, Closing, TypeInv, TokenTypes, Token
<1>3. CountInv'
  <2>1. \A u \in Users : Counted(u)'
    BY <1>1 DEF CountInv, Counted, TypeInv, UserTypes, User
  <2>2. ASSUME NEW s \in Requests, req'[s].op = "countFailure"
        PROVE  tries'[req'[s].user] < req'[s].count
    <3>1. req'[s] = req[s]
      BY <1>1, <2>2, NoneAssumption DEF Idle, Ops
    <3>2. /\ tries[req[s].user] < req[s].count
          /\ req[s].user \in Users /\ req[s].count \in Nat
      BY <2>2, <3>1
      DEF CountInv, CountReady, TypeInv, RequestTypes, Formed, Ops, Request
    <3> QED BY <1>1, <3>1, <3>2 DEF TypeInv, UserTypes
  <2> QED BY <2>1, <2>2 DEF CountInv, CountReady
<1>4. PasswordInv'
  <2>1. \A s \in Requests : PasswordReady(req[s])'
    BY <1>1, IdleReady DEF PasswordInv, PasswordReady
  <2> QED BY <1>1, <2>1 DEF PasswordInv, Current, Recent
<1>5. ASSUME NEW r \in Requests PROVE TokenInv'
  <2>1. /\ \A u : /\ NoneOpen(invite, u) => NoneOpen(invite', u)
                  /\ NoneOpen(reset, u) => NoneOpen(reset', u)
    BY <1>2 DEF NoneOpen, Closing
  <2>2. TokenReady(req[r])'
    BY <1>1, <2>1, IdleReady DEF TokenInv, TokenReady
  <2> QED BY <1>1, <1>2, <2>2, Tokenly
<1>6. ASSUME Requests = {} PROVE TokenInv'
  <2>1. Sole(invite') /\ Sole(reset')
    BY <1>2, SoleKept DEF TokenInv
  <2>2. UNCHANGED opened
    BY <1>1
  <2>3. \A r \in Requests : TokenReady(req[r])'
    BY <1>6
  <2> QED BY <2>1, <2>2, <2>3 DEF TokenInv
<1>7. FactorInv'
  BY <1>1, IdleReady DEF FactorInv, FactorReady
<1> QED BY <1>3, <1>4, <1>5, <1>6, <1>7

LEMMA NextOrderly ==
  ASSUME TypeInv, TypeInv', InviteInv, OrderlyInv, [Next]_vars
  PROVE  OrderlyInv'
<1> SUFFICES ASSUME ~overlapped'
             PROVE  (Single /\ CountInv /\ PasswordInv /\ TokenInv /\ FactorInv)'
  BY DEF OrderlyInv
<1>1. ~overlapped
  BY DEF Next, vars
<1>2. Single /\ CountInv /\ PasswordInv /\ TokenInv /\ FactorInv
  BY <1>1 DEF OrderlyInv
<1>3. ASSUME NEW r \in Requests, Start(r),
             overlapped' = (overlapped \/ ~Alone(r))
      PROVE  (Single /\ CountInv /\ PasswordInv /\ TokenInv /\ FactorInv)'
  <2>1. \A s \in Requests \ {r} : req[s] = Idle
    BY <1>3 DEF Alone
  <2>2. Single'
    BY <1>3, <2>1, StartFrame DEF Single
  <2> QED
    BY <1>2, <1>3, <2>1, <2>2, StartCount, StartPasswords, StartSole,
       StartFactors
<1>4. ASSUME NEW r \in Requests, Step(r)
      PROVE  (Single /\ CountInv /\ PasswordInv /\ TokenInv /\ FactorInv)'
  <2>1. \A s \in Requests \ {r} : req[s] = Idle
    BY <1>2, <1>4, StepFrame DEF Single
  <2>2. Single'
    BY <1>4, <2>1, StepFrame DEF Single
  <2> QED
    BY <1>2, <1>4, <2>1, <2>2, StepCount, StepPasswords, StepSole, StepFactors
<1>5. ASSUME \/ UNCHANGED vars
             \/ \E r \in Requests : Stop(r)
             \/ \E u \in Users : LockElapses(u)
             \/ Expire
      PROVE  (Single /\ CountInv /\ PasswordInv /\ TokenInv /\ FactorInv)'
  <2>1. \A s \in Requests : req'[s] \in {Idle, req[s]}
    BY <1>5 DEF Stop, Finish, LockElapses, Expire, vars, TypeInv, RequestTypes
  <2>2. Single'
    BY <1>2, <2>1 DEF Single
  <2> QED BY <1>2, <1>5, <2>2, TimeOrderly
<1> QED BY <1>3, <1>4, <1>5 DEF Next

LEMMA SoleIsOne ==
  ASSUME NEW K, NEW rows \in [K -> Token], Sole(rows)
  PROVE  OneOpen(rows)
<1> SUFFICES ASSUME NEW u \in Users
             PROVE  Cardinality({k \in DOMAIN rows :
                      rows[k] = [user |-> u, state |-> "open"]}) <= 1
  BY DEF OneOpen
<1> DEFINE S == {k \in DOMAIN rows : rows[k] = [user |-> u, state |-> "open"]}
<1>1. \A k, l \in S : k = l
  BY DEF Sole
<1>2. CASE S = {}
  BY <1>2, FS_EmptySet
<1>3. CASE S # {}
  <2>1. PICK k : k \in S
    BY <1>3
  <2>2. S = {k}
    BY <1>1, <2>1
  <2>3. Cardinality(S) = 1
    BY <2>2, FS_Singleton
  <2> QED BY <2>3
<1> QED BY <1>2, <1>3

(* While requests do not overlap, wherever they stop: failures lock the    *)
(* account in time, an invitation opens one session, a user has one open   *)
(* invitation and one open reset, a reset leaves no older session, and a   *)
(* second factor that is asked for has been entered once.                  *)
THEOREM OrderlySignIn == Spec => []SignsInOrderly
<1> DEFINE Inv == TypeInv /\ LoginInv /\ InviteInv /\ OrderlyInv
<1>1. Init => Inv
  BY InitTypes, InitTokens, InitOrderly
<1>2. Inv /\ [Next]_vars => Inv'
  BY NextTypes, NextTokens, NextOrderly
<1>3. Inv => SignsInOrderly
  <2> SUFFICES ASSUME Inv, ~overlapped PROVE SignsInOrderly
    BY DEF SignsInOrderly
  <2>1. CountInv /\ PasswordInv /\ TokenInv /\ FactorInv
    BY DEF OrderlyInv
  <2>2. \A u \in Users : tries[u] <= MaxFailed
    BY <2>1, NumbersAssumption
    DEF CountInv, Counted, TypeInv, UserTypes, User
  <2>3. OneOpen(invite) /\ OneOpen(reset)
    BY <2>1, SoleIsOne DEF TokenInv, TypeInv, TokenTypes
  <2>4. \A s \in sessions : s.password >= floor[s.user] \/ s.via = "code"
    BY <2>1 DEF PasswordInv, Recent
  <2> QED
    BY <2>1, <2>2, <2>3, <2>4 DEF SignsInOrderly, TokenInv, FactorInv
<1> QED BY <1>1, <1>2, <1>3, PTL DEF Spec

-----------------------------------------------------------------------------
(* How many wrong passwords two overlapping requests can count.            *)

Triangle(n) == (n * (n + 1)) \div 2
Larger(x, y) == IF x >= y THEN x ELSE y
Smaller(x, y) == IF x >= y THEN y ELSE x
Room(x, y) == Triangle(Larger(x, y)) + Smaller(x, y)

(* The values the count of a row has still to come to before it is locked, *)
(* and those the row will have once a count in flight is written.          *)
Ahead(row) ==
  IF row.until THEN 0
  ELSE IF row.failures < MaxFailed THEN MaxFailed - row.failures ELSE 1
Left(q, u, row) ==
  IF q.op = "countFailure" /\ q.user = u
  THEN Larger(MaxFailed + 1 - q.count, Ahead(row)) ELSE Ahead(row)
Slot(r) == IF r \in Requests THEN req[r] ELSE Idle

Bound == Triangle(MaxFailed) + MaxFailed

LockInv(r, s) ==
  /\ \A q \in Requests : req[q].op = "countFailure" => req[q].count >= 1
  /\ \A u \in Users :
       tries[u] + Room(Left(Slot(r), u, user[u]), Left(Slot(s), u, user[u]))
         <= Bound

LEMMA TriangleNext ==
  ASSUME NEW n \in Nat
  PROVE  Triangle(n) \in Nat /\ Triangle(n + 1) = Triangle(n) + n + 1
<1>1. (n + 1) * ((n + 1) + 1) = n * (n + 1) + 2 * (n + 1)
  OBVIOUS
<1>2. n * (n + 1) \in Nat
  OBVIOUS
<1>3. \A k \in Nat : (k + 2 * (n + 1)) \div 2 = (k \div 2) + (n + 1) /\ k \div 2 \in Nat
  OBVIOUS
<1> QED BY <1>1, <1>2, <1>3 DEF Triangle

LEMMA TriangleGrows ==
  ASSUME NEW m \in Nat, NEW n \in Nat, m <= n
  PROVE  Triangle(m) <= Triangle(n)
<1>1. m * (m + 1) <= n * (n + 1) /\ m * (m + 1) \in Nat /\ n * (n + 1) \in Nat
  OBVIOUS
<1>2. \A j, k \in Nat : j <= k => j \div 2 <= k \div 2
  OBVIOUS
<1> QED BY <1>1, <1>2 DEF Triangle

LEMMA RoomIs ==
  ASSUME NEW x \in Nat, NEW y \in Nat
  PROVE  Room(x, y) \in Nat /\ Room(x, y) = Room(y, x)
<1>1. /\ Larger(x, y) \in Nat /\ Smaller(x, y) \in Nat
      /\ Larger(x, y) = Larger(y, x) /\ Smaller(x, y) = Smaller(y, x)
  BY DEF Larger, Smaller
<1>2. Triangle(Larger(x, y)) \in Nat
  BY <1>1, TriangleNext
<1> QED BY <1>1, <1>2 DEF Room

LEMMA RoomGrows ==
  ASSUME NEW x \in Nat, NEW y \in Nat, NEW a \in Nat, NEW b \in Nat,
         x <= a, y <= b
  PROVE  Room(x, y) <= Room(a, b)
<1>1. /\ Larger(x, y) \in Nat /\ Larger(a, b) \in Nat
      /\ Smaller(x, y) \in Nat /\ Smaller(a, b) \in Nat
      /\ Larger(x, y) <= Larger(a, b) /\ Smaller(x, y) <= Smaller(a, b)
  BY DEF Larger, Smaller
<1>2. /\ Triangle(Larger(x, y)) \in Nat /\ Triangle(Larger(a, b)) \in Nat
      /\ Triangle(Larger(x, y)) <= Triangle(Larger(a, b))
  BY <1>1, TriangleNext, TriangleGrows
<1> QED BY <1>1, <1>2 DEF Room

(* A failure that is counted takes one of the room left, whether the other *)
(* request holds a count that will take back more than this one wrote, or  *)
(* starts from what this one wrote.                                        *)
LEMMA RoomUsed ==
  ASSUME NEW k \in Nat, NEW x \in Nat, NEW y \in Nat, NEW z \in Nat,
         k + 1 <= x, z = k \/ (k <= z /\ z <= y)
  PROVE  Room(k, z) + 1 <= Room(x, y)
<1>1. k <= z
  BY DEF Larger
<1>2. Room(k, z) = Triangle(z) + k
  BY <1>1 DEF Room, Larger, Smaller
<1>3. CASE z = k
  <2>1. Larger(x, y) \in Nat /\ k + 1 <= Larger(x, y) /\ Smaller(x, y) \in Nat
    BY DEF Larger, Smaller
  <2>2. Triangle(k + 1) <= Triangle(Larger(x, y))
    BY <2>1, TriangleGrows
  <2>3. Triangle(k + 1) = Triangle(k) + k + 1 /\ Triangle(k) \in Nat
        /\ Triangle(Larger(x, y)) \in Nat
    BY <2>1, TriangleNext
  <2> QED BY <1>2, <1>3, <2>1, <2>2, <2>3 DEF Room
<1>4. CASE k + 1 <= z
  <2>1. Room(k + 1, z) <= Room(x, y)
    BY <1>4, RoomGrows
  <2>2. Room(k + 1, z) = Triangle(z) + (k + 1)
    BY <1>4 DEF Room, Larger, Smaller
  <2>3. Triangle(z) \in Nat /\ Room(x, y) \in Nat
    BY TriangleNext, RoomIs
  <2> QED BY <1>2, <2>1, <2>2, <2>3
<1> QED BY <1>1, <1>3, <1>4

LEMMA BoundIs ==
  (MaxFailed * (MaxFailed + 3)) \div 2 = Bound /\ Bound \in Nat
<1>1. MaxFailed \in Nat
  BY NumbersAssumption
<1>2. MaxFailed * (MaxFailed + 3) = MaxFailed * (MaxFailed + 1) + 2 * MaxFailed
  BY <1>1
<1>3. MaxFailed * (MaxFailed + 1) \in Nat
  BY <1>1
<1>4. \A k \in Nat : (k + 2 * MaxFailed) \div 2 = (k \div 2) + MaxFailed
  BY <1>1
<1>5. Triangle(MaxFailed) \in Nat
  BY <1>1, TriangleNext
<1> QED BY <1>1, <1>2, <1>3, <1>4, <1>5 DEF Bound, Triangle

LEMMA AheadBounds ==
  ASSUME NEW row \in User
  PROVE  Ahead(row) \in 0..MaxFailed
BY NumbersAssumption DEF Ahead, User

Earnest(q) == q.op = "countFailure" => q.count \in 1..MaxFailed

LEMMA LeftBounds ==
  ASSUME NEW q, Earnest(q), NEW row \in User, NEW u
  PROVE  /\ Left(q, u, row) \in Nat /\ Left(q, u, row) <= MaxFailed
         /\ Ahead(row) \in Nat /\ Ahead(row) <= Left(q, u, row)
<1>1. Ahead(row) \in 0..MaxFailed /\ MaxFailed \in Nat
  BY AheadBounds, NumbersAssumption
<1>2. CASE q.op = "countFailure" /\ q.user = u
  BY <1>1, <1>2 DEF Left, Larger, Earnest
<1>3. CASE ~(q.op = "countFailure" /\ q.user = u)
  BY <1>1, <1>3 DEF Left
<1> QED BY <1>2, <1>3

(* Whatever the rows and requests hold, there is room within the bound.    *)
LEMMA RoomBounded ==
  ASSUME NEW x \in Nat, NEW y \in Nat, x <= MaxFailed, y <= MaxFailed
  PROVE  Room(x, y) \in Nat /\ Room(x, y) <= Bound
<1>1. MaxFailed \in Nat
  BY NumbersAssumption
<1>2. Room(x, y) <= Room(MaxFailed, MaxFailed)
  BY <1>1, RoomGrows
<1>3. Room(MaxFailed, MaxFailed) = Bound
  BY <1>1 DEF Room, Larger, Smaller, Bound
<1> QED BY <1>2, <1>3, RoomIs

LEMMA SlotsEarnest ==
  ASSUME TypeInv, NEW r,
         \A q \in Requests : req[q].op = "countFailure" => req[q].count >= 1
  PROVE  Earnest(Slot(r))
<1>1. CASE r \in Requests
  BY <1>1 DEF Slot, Earnest, TypeInv, RequestTypes, Formed, Request
<1>2. CASE r \notin Requests
  BY <1>2, NoneAssumption DEF Slot, Earnest, Idle, Ops
<1> QED BY <1>1, <1>2

LEMMA SlotsEarnestAfter ==
  ASSUME TypeInv', NEW r,
         \A q \in Requests : req'[q].op = "countFailure" => req'[q].count >= 1
  PROVE  Earnest(Slot(r)')
<1>1. CASE r \in Requests
  BY <1>1 DEF Slot, Earnest, TypeInv, RequestTypes, Formed, Request
<1>2. CASE r \notin Requests
  BY <1>2, NoneAssumption DEF Slot, Earnest, Idle, Ops
<1> QED BY <1>1, <1>2

(* The room left to two requests is the room left to them in either order. *)
LEMMA LockSwaps ==
  ASSUME TypeInv, NEW r, NEW s, LockInv(r, s)
  PROVE  LockInv(s, r)
<1>1. Earnest(Slot(r)) /\ Earnest(Slot(s))
  BY SlotsEarnest DEF LockInv
<1>2. ASSUME NEW u \in Users
      PROVE  Room(Left(Slot(s), u, user[u]), Left(Slot(r), u, user[u]))
               = Room(Left(Slot(r), u, user[u]), Left(Slot(s), u, user[u]))
  <2>1. user[u] \in User
    BY DEF TypeInv, UserTypes
  <2> QED BY <1>1, <2>1, LeftBounds, RoomIs
<1> QED BY <1>2 DEF LockInv

LEMMA SwapsAfter ==
  ASSUME TypeInv', NEW r, NEW s, NEW u \in Users,
         \A q \in Requests : req'[q].op = "countFailure" => req'[q].count >= 1
  PROVE  Room(Left(Slot(s)', u, user'[u]), Left(Slot(r)', u, user'[u]))
           = Room(Left(Slot(r)', u, user'[u]), Left(Slot(s)', u, user'[u]))
<1>1. Earnest(Slot(r)') /\ Earnest(Slot(s)')
  BY SlotsEarnestAfter
<1>2. user'[u] \in User
  BY DEF TypeInv, UserTypes
<1> QED BY <1>1, <1>2, LeftBounds, RoomIs

LEMMA InitLock ==
  ASSUME Init, NEW r, NEW s PROVE LockInv(r, s)
<1>1. TypeInv
  BY InitTypes
<1>2. \A q \in Requests : req[q].op # "countFailure"
  BY NoneAssumption DEF Init, Idle, Ops
<1>3. Earnest(Slot(r)) /\ Earnest(Slot(s))
  BY <1>1, <1>2, SlotsEarnest
<1>4. ASSUME NEW u \in Users
      PROVE  tries[u] + Room(Left(Slot(r), u, user[u]), Left(Slot(s), u, user[u]))
               <= Bound
  <2> PICK x : x = Left(Slot(r), u, user[u])
    OBVIOUS
  <2> PICK y : y = Left(Slot(s), u, user[u])
    OBVIOUS
  <2>1. x \in Nat /\ x <= MaxFailed /\ y \in Nat /\ y <= MaxFailed
    BY <1>1, <1>3, LeftBounds DEF TypeInv, UserTypes
  <2>2. Room(x, y) <= Bound /\ Room(x, y) \in Nat
    BY <2>1, RoomBounded
  <2>3. tries[u] = 0
    BY DEF Init
  <2> QED BY <2>2, <2>3
<1> QED BY <1>2, <1>4 DEF LockInv

(* What a step has to do with the room left.                               *)
LEMMA LockStays ==
  ASSUME TypeInv, TypeInv', NEW r, NEW s, LockInv(r, s),
         \A q \in Requests : req'[q].op = "countFailure" => req'[q].count >= 1,
         NEW u \in Users,
         \/ tries'[u] = 0
         \/ /\ tries'[u] = tries[u]
            /\ Left(Slot(r)', u, user'[u]) <= Left(Slot(r), u, user[u])
            /\ Left(Slot(s)', u, user'[u]) <= Left(Slot(s), u, user[u])
  PROVE  tries'[u] + Room(Left(Slot(r)', u, user'[u]), Left(Slot(s)', u, user'[u]))
           <= Bound
<1>1. Earnest(Slot(r)) /\ Earnest(Slot(s))
  BY SlotsEarnest DEF LockInv
<1>2. Earnest(Slot(r)') /\ Earnest(Slot(s)')
  BY SlotsEarnestAfter
<1>3. PICK x, y, a, b :
        /\ x = Left(Slot(r)', u, user'[u]) /\ y = Left(Slot(s)', u, user'[u])
        /\ a = Left(Slot(r), u, user[u]) /\ b = Left(Slot(s), u, user[u])
  OBVIOUS
<1>4. user[u] \in User /\ user'[u] \in User /\ tries[u] \in Nat
  BY DEF TypeInv, UserTypes
<1>5. x \in Nat /\ x <= MaxFailed /\ y \in Nat /\ y <= MaxFailed
  BY <1>2, <1>3, <1>4, LeftBounds
<1>6. a \in Nat /\ b \in Nat
  BY <1>1, <1>3, <1>4, LeftBounds
<1>7. Room(x, y) <= Bound /\ Room(x, y) \in Nat /\ Room(a, b) \in Nat
  BY <1>5, <1>6, RoomBounded, RoomIs
<1>8. tries[u] + Room(a, b) <= Bound
  BY <1>3 DEF LockInv
<1>9. CASE tries'[u] = 0
  BY <1>3, <1>7, <1>9
<1>10. CASE tries'[u] = tries[u] /\ x <= a /\ y <= b
  <2>1. Room(x, y) <= Room(a, b)
    BY <1>5, <1>6, <1>10, RoomGrows
  <2> QED BY <1>3, <1>4, <1>7, <1>8, <1>10, <2>1, BoundIs
<1> QED BY <1>3, <1>9, <1>10

(* A step that counts no failure leaves no request more than it had.       *)
LEMMA MildLocks ==
  ASSUME TypeInv, TypeInv', NEW r, NEW s, LockInv(r, s), NEW p, Mildly(p)
  PROVE  LockInv(r, s)'
<1>1. \A q \in Requests : req'[q].op = "countFailure" =>
        req'[q] = req[q] /\ req'[q].count >= 1
  BY DEF Mildly, LockInv
<1>2. ASSUME NEW u \in Users
      PROVE  tries'[u] + Room(Left(Slot(r)', u, user'[u]), Left(Slot(s)', u, user'[u]))
               <= Bound
  <2>1. CASE tries'[u] = 0
    BY <1>1, <2>1, LockStays
  <2>2. CASE tries'[u] # 0
    <3>1. tries'[u] = tries[u] /\ Ahead(user'[u]) = Ahead(user[u])
      BY <2>2 DEF Mildly, Mild, Ahead
    <3>2. ASSUME NEW q PROVE Left(Slot(q)', u, user'[u]) <= Left(Slot(q), u, user[u])
      <4>1. Earnest(Slot(q))
        BY SlotsEarnest DEF LockInv
      <4>2. /\ Left(Slot(q), u, user[u]) \in Nat /\ Ahead(user[u]) \in Nat
            /\ Ahead(user[u]) <= Left(Slot(q), u, user[u])
        BY <4>1, LeftBounds DEF TypeInv, UserTypes
      <4>3. CASE Slot(q)'.op = "countFailure"
        <5>1. q \in Requests
          BY <4>3, NoneAssumption DEF Slot, Idle, Ops
        <5>2. Slot(q)' = Slot(q)
          BY <1>1, <4>3, <5>1 DEF Slot
        <5> QED BY <3>1, <4>2, <5>2 DEF Left
      <4>4. CASE Slot(q)'.op # "countFailure"
        BY <3>1, <4>2, <4>4 DEF Left
      <4> QED BY <4>3, <4>4
    <3> QED BY <1>1, <3>1, <3>2, LockStays
  <2> QED BY <2>1, <2>2
<1> QED BY <1>1, <1>2 DEF LockInv

(* A count that is read is the next of the row.                            *)
LEMMA WrongLocks ==
  ASSUME TypeInv, TypeInv', NEW r, NEW s, LockInv(r, s),
         NEW p \in Requests, NEW v \in Users, WrongPassword(p, v)
  PROVE  LockInv(r, s)'
<1> DEFINE n == IF user[v].failures < MaxFailed
                THEN user[v].failures + 1 ELSE MaxFailed
<1>1. /\ req'[p].op = "countFailure" /\ req'[p].user = v /\ req'[p].count = n
      /\ \A q \in Requests \ {p} : req'[q] = req[q]
      /\ req[p] = Idle
      /\ ~user[v].until
      /\ UNCHANGED <<user, tries>>
  BY DEF WrongPassword, Serve, Idle, CanLogIn, TypeInv, RequestTypes, history
<1>2. /\ user[v].failures \in 0..MaxFailed /\ MaxFailed \in Nat \ {0}
      /\ \A u \in Users : user[u] \in User
  BY NumbersAssumption DEF TypeInv, UserTypes, User
<1>3. n >= 1 /\ n \in Nat /\ MaxFailed + 1 - n = Ahead(user[v])
  BY <1>1, <1>2 DEF Ahead
<1> HIDE DEF n
<1>4. \A q \in Requests : req'[q].op = "countFailure" => req'[q].count >= 1
  BY <1>1, <1>3 DEF LockInv
<1>5. ASSUME NEW u \in Users, NEW q
      PROVE  Left(Slot(q)', u, user'[u]) <= Left(Slot(q), u, user[u])
  <2>1. Earnest(Slot(q))
    BY SlotsEarnest DEF LockInv
  <2>2. /\ Left(Slot(q), u, user[u]) \in Nat /\ Ahead(user[u]) \in Nat
    BY <1>2, <2>1, LeftBounds
  <2>3. CASE q = p
    <3>1. Slot(q)' = req'[p] /\ Slot(q).op # "countFailure"
      BY <1>1, <2>3, NoneAssumption DEF Slot, Idle, Ops
    <3>2. Left(Slot(q)', u, user'[u]) = Ahead(user[u])
      BY <1>1, <1>3, <2>2, <3>1 DEF Left, Larger
    <3>3. Left(Slot(q), u, user[u]) = Ahead(user[u])
      BY <3>1 DEF Left
    <3> QED BY <2>2, <3>2, <3>3
  <2>4. CASE q # p
    <3>1. Slot(q)' = Slot(q) /\ user' = user
      BY <1>1, <2>4 DEF Slot
    <3> QED BY <2>2, <3>1
  <2> QED BY <2>3, <2>4
<1>6. ASSUME NEW u \in Users
      PROVE  tries'[u] + Room(Left(Slot(r)', u, user'[u]), Left(Slot(s)', u, user'[u]))
               <= Bound
  BY <1>1, <1>4, <1>5, LockStays
<1> QED BY <1>4, <1>6 DEF LockInv

LEMMA CountLocks ==
  ASSUME TypeInv, TypeInv', NEW r, NEW s, r # s, LockInv(r, s),
         r \in Requests, CountFailure(r)
  PROVE  \A u \in Users :
           tries'[u] + Room(Left(Slot(r)', u, user'[u]), Left(Slot(s)', u, user'[u]))
             <= Bound
<1> DEFINE v == req[r].user
           c == req[r].count
<1>1. /\ req[r].op = "countFailure" /\ v \in Users /\ c \in 1..MaxFailed
      /\ MaxFailed \in Nat
  BY NumbersAssumption
  DEF CountFailure, Pending, LockInv, TypeInv, RequestTypes, Formed, Ops, Request
<1>2. /\ tries' = [tries EXCEPT ![v] = @ + 1]
      /\ user'[v].failures = c /\ user'[v].until = (c = MaxFailed)
      /\ \A u \in Users \ {v} : user'[u] = user[u]
      /\ req'[r] = Idle /\ \A q \in Requests \ {r} : req'[q] = req[q]
  BY <1>1 DEF CountFailure, Finish, TypeInv, UserTypes, User, RequestTypes
<1>3. \A q \in Requests : req'[q].op = "countFailure" => req'[q].count >= 1
  BY <1>2, NoneAssumption DEF LockInv, Idle, Ops
<1>4. /\ Slot(r) = req[r] /\ Slot(r)'.op # "countFailure" /\ Slot(s)' = Slot(s)
  BY <1>2, NoneAssumption DEF Slot, Idle, Ops
<1>5. /\ Earnest(Slot(r)) /\ Earnest(Slot(s))
      /\ \A u \in Users : user[u] \in User /\ tries[u] \in Nat
  BY SlotsEarnest DEF LockInv, TypeInv, UserTypes
<1>6. ASSUME NEW u \in Users, u # v
      PROVE  tries'[u] + Room(Left(Slot(r)', u, user'[u]), Left(Slot(s)', u, user'[u]))
               <= Bound
  <2>1. tries'[u] = tries[u] /\ user'[u] = user[u]
    BY <1>1, <1>2, <1>6 DEF TypeInv, UserTypes
  <2>2. /\ Left(Slot(r)', u, user'[u]) = Left(Slot(r), u, user[u])
        /\ Left(Slot(s)', u, user'[u]) = Left(Slot(s), u, user[u])
    BY <1>4, <1>6, <2>1 DEF Left
  <2> QED BY <2>1, <2>2 DEF LockInv
<1>7. tries'[v] + Room(Left(Slot(r)', v, user'[v]), Left(Slot(s)', v, user'[v]))
        <= Bound
  <2> DEFINE k == MaxFailed - c
  <2>1. PICK x, y, z :
          /\ x = Left(Slot(r), v, user[v]) /\ y = Left(Slot(s), v, user[v])
          /\ z = Left(Slot(s)', v, user'[v])
    OBVIOUS
  <2>2. Ahead(user'[v]) = k /\ k \in Nat
    <3>1. CASE c = MaxFailed
      <4>1. user'[v].until
        BY <1>2, <3>1
      <4> QED BY <1>1, <3>1, <4>1 DEF Ahead
    <3>2. CASE c # MaxFailed
      <4>1. ~user'[v].until
        BY <1>2, <3>2
      <4>2. user'[v].failures < MaxFailed
        BY <1>1, <1>2, <3>2
      <4> QED BY <1>1, <1>2, <4>1, <4>2 DEF Ahead
    <3> QED BY <3>1, <3>2
  <2>3. Left(Slot(r)', v, user'[v]) = k
    BY <1>4, <2>2 DEF Left
  <2>4. x \in Nat /\ y \in Nat /\ Ahead(user[v]) \in Nat
    BY <1>1, <1>5, <2>1, LeftBounds
  <2>5. k + 1 <= x
    BY <1>1, <1>4, <2>1, <2>4 DEF Left, Larger
  <2>6. z \in Nat /\ (z = k \/ (k <= z /\ z <= y))
    <3>1. CASE Slot(s).op = "countFailure" /\ Slot(s).user = v
      <4>1. z = Larger(MaxFailed + 1 - Slot(s).count, k)
        BY <1>4, <2>1, <2>2, <3>1 DEF Left
      <4>2. y = Larger(MaxFailed + 1 - Slot(s).count, Ahead(user[v]))
        BY <2>1, <3>1 DEF Left
      <4>3. Slot(s).count \in 1..MaxFailed
        BY <1>5, <3>1 DEF Earnest
      <4> QED BY <1>1, <2>2, <2>4, <4>1, <4>2, <4>3 DEF Larger
    <3>2. CASE ~(Slot(s).op = "countFailure" /\ Slot(s).user = v)
      BY <1>4, <2>1, <2>2, <3>2 DEF Left
    <3> QED BY <3>1, <3>2
  <2> HIDE DEF k
  <2>7. Room(k, z) + 1 <= Room(x, y)
    BY <2>2, <2>4, <2>5, <2>6, RoomUsed
  <2>8. tries[v] + Room(x, y) <= Bound /\ tries'[v] = tries[v] + 1
    BY <1>1, <1>2, <2>1 DEF LockInv, TypeInv, UserTypes
  <2>9. /\ Room(k, z) \in Nat /\ Room(x, y) \in Nat /\ tries[v] \in Nat
        /\ Bound \in Nat
    BY <1>1, <1>5, <2>2, <2>4, <2>6, RoomIs, BoundIs
  <2>10. tries'[v] + Room(k, z) <= Bound
    BY <2>7, <2>8, <2>9
  <2> QED BY <2>1, <2>3, <2>10
<1> QED BY <1>6, <1>7

LEMMA TimeMild ==
  ASSUME TypeInv, NEW r \in Requests, Stop(r)
  PROVE  Mildly(r)
<1>1. /\ req'[r] = Idle
      /\ \A s \in Requests \ {r} : req'[s] = req[s]
  BY DEF Stop, Finish, TypeInv, RequestTypes
<1>2. Idle.op # "countFailure"
  BY NoneAssumption DEF Idle, Ops
<1> QED BY <1>1, <1>2 DEF Stop, history, Mildly, Mild

LEMMA NextLocks ==
  ASSUME TypeInv, TypeInv', NEW r, NEW s, r # s, Requests \subseteq {r, s},
         LockInv(r, s), [Next]_vars
  PROVE  LockInv(r, s)'
<1>1. ASSUME UNCHANGED req, \A u \in Users : Mild(u) PROVE LockInv(r, s)'
  <2>1. Mildly(r)
    BY <1>1 DEF Mildly
  <2> QED BY <2>1, MildLocks
<1>2. ASSUME NEW p \in Requests, Start(p) PROVE LockInv(r, s)'
  BY <1>2, WrongLocks, StartMild, MildLocks
<1>3. ASSUME NEW p \in Requests, CountFailure(p) PROVE LockInv(r, s)'
  <2>1. \A q \in Requests : req'[q].op = "countFailure" => req'[q].count >= 1
    BY <1>3, NoneAssumption
    DEF CountFailure, Finish, LockInv, Idle, Ops, TypeInv, RequestTypes
  <2>2. CASE p = r
    BY <1>3, <2>1, <2>2, CountLocks DEF LockInv
  <2>3. CASE p = s
    <3>1. LockInv(s, r)
      BY LockSwaps
    <3>2. \A u \in Users :
            tries'[u] + Room(Left(Slot(s)', u, user'[u]), Left(Slot(r)', u, user'[u]))
              <= Bound
      BY <1>3, <2>3, <3>1, CountLocks
    <3> QED BY <2>1, <3>2, SwapsAfter DEF LockInv
  <2> QED BY <2>2, <2>3
<1>4. ASSUME NEW p \in Requests, Step(p), ~CountFailure(p) PROVE LockInv(r, s)'
  BY <1>4, StepMild, MildLocks
<1>5. ASSUME NEW p \in Requests, Stop(p) PROVE LockInv(r, s)'
  BY <1>5, TimeMild, MildLocks
<1>6. CASE UNCHANGED vars
  BY <1>1, <1>6 DEF vars, history, Mild
<1>7. ASSUME NEW u \in Users, LockElapses(u) PROVE LockInv(r, s)'
  BY <1>1, <1>7 DEF LockElapses, Mild, TypeInv, UserTypes
<1>8. CASE Expire
  BY <1>1, <1>8 DEF Expire, history, Mild
<1> QED BY <1>2, <1>3, <1>4, <1>5, <1>6, <1>7, <1>8 DEF Next
(* At most two requests are two names, or fewer.                           *)
LEMMA TwoSlots ==
  ASSUME Cardinality(Requests) <= 2
  PROVE  \E r, s : r # s /\ Requests \subseteq {r, s}
<1>1. \A r : \E s : r # s
  <2> TAKE r
  <2>1. r # 0 \/ r # 1
    OBVIOUS
  <2> QED BY <2>1
<1>2. CASE Requests = {}
  BY <1>1, <1>2
<1>3. ASSUME NEW r \in Requests
      PROVE  \E a, b : a # b /\ Requests \subseteq {a, b}
  <2> DEFINE R == Requests \ {r}
  <2>1. IsFiniteSet(R) /\ Cardinality(R) <= 1
    <3>1. /\ Cardinality(Requests) \in Nat
          /\ Cardinality(R) = Cardinality(Requests) - 1
          /\ IsFiniteSet(R)
      BY <1>3, RequestsAssumption, FS_RemoveElement, FS_CardinalityType
    <3> QED BY <3>1
  <2>2. CASE R = {}
    BY <1>1, <2>2
  <2>3. ASSUME NEW s \in R PROVE \E a, b : a # b /\ Requests \subseteq {a, b}
    <3>1. /\ IsFiniteSet(R \ {s})
          /\ Cardinality(R \ {s}) = Cardinality(R) - 1
      BY <2>1, <2>3, FS_RemoveElement
    <3>2. Cardinality(R \ {s}) \in Nat /\ Cardinality(R) \in Nat
      BY <2>1, <3>1, FS_CardinalityType
    <3>3. Cardinality(R \ {s}) = 0
      BY <2>1, <3>1, <3>2
    <3>4. R \ {s} = {}
      BY <3>1, <3>3, FS_EmptySet
    <3>5. r # s /\ Requests \subseteq {r, s}
      BY <3>4
    <3> QED BY <3>5
  <2> QED BY <2>2, <2>3
<1> QED BY <1>2, <1>3

(* With at most two requests at a time an account is locked after at most  *)
(* MaxFailed * (MaxFailed + 3) / 2 wrong passwords, however the requests   *)
(* read and write the count.                                               *)
THEOREM LocksInTime ==
  ASSUME Cardinality(Requests) <= 2
  PROVE  Spec => []LockedInTime
<1>1. PICK r, s : r # s /\ Requests \subseteq {r, s}
  BY TwoSlots
<1>2. Init => TypeInv /\ LockInv(r, s)
  BY InitTypes, InitLock
<1>3. TypeInv /\ LockInv(r, s) /\ [Next]_vars => (TypeInv /\ LockInv(r, s))'
  BY <1>1, NextTypes, NextLocks
<1>4. TypeInv /\ LockInv(r, s) => LockedInTime
  <2> SUFFICES ASSUME TypeInv, LockInv(r, s), NEW u \in Users
               PROVE  tries[u] <= (MaxFailed * (MaxFailed + 3)) \div 2
    BY DEF LockedInTime
  <2>1. Earnest(Slot(r)) /\ Earnest(Slot(s)) /\ user[u] \in User /\ tries[u] \in Nat
    BY SlotsEarnest DEF LockInv, TypeInv, UserTypes
  <2>2. Room(Left(Slot(r), u, user[u]), Left(Slot(s), u, user[u])) \in Nat
    BY <2>1, LeftBounds, RoomIs
  <2>3. tries[u] + Room(Left(Slot(r), u, user[u]), Left(Slot(s), u, user[u]))
          <= Bound
    BY DEF LockInv
  <2> QED BY <2>1, <2>2, <2>3, BoundIs
<1> QED BY <1>2, <1>3, <1>4, PTL DEF Spec
=============================================================================
