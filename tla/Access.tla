------------------------------- MODULE Access -------------------------------
(***************************************************************************)
(* What a request passes before it is served: its bearer token is resolved *)
(* (auth.guard.ts, apikeys.service.ts, oauth.service.ts), counted          *)
(* (rate-limit.guard.ts) and, where its route asks for them, held against  *)
(* the licence of the module (module-license.guard.ts) and the entities    *)
(* its user may see (entity-scope.ts); and the requests that change any of *)
(* that (tenancy.service.ts, identity.service.ts).                         *)
(*                                                                         *)
(* One tenant, one module, one user with a session, who also created the   *)
(* API keys and OAuth clients.  A guard reads when it is reached; requests *)
(* served at the same time interleave between the guards, and between the  *)
(* statements of an update.                                                *)
(*                                                                         *)
(* A definition Name_Slip is Name with a plausible slip, which a property  *)
(* below must catch; nothing refers to it.                                 *)
(*                                                                         *)
(* Abstractions: sessions are those of SignIn, the one here stays; scopes  *)
(* of keys and clients never change and are left out, and so is what is    *)
(* served; times are whole ticks.                                          *)
(***************************************************************************)
EXTENDS Naturals, FiniteSetsExt

CONSTANTS
  Keys,      \* the API keys
  Clients,   \* the OAuth clients
  Entities,  \* the entities that exist or may be created
  Slots,     \* slots for requests served at the same time
  Session,   \* the session of the user
  Nothing,   \* no bearer, no entity, no role
  Window,    \* RATE_LIMIT_WINDOW_MS
  PerWindow, \* RATE_LIMIT_MAX
  Lifetime,  \* ACCESS_TOKEN_TTL_SECONDS
  LastTick,  \* bound: how long the clock runs
  MaxCalls   \* bound: requests that are made

ASSUME AccessAssumption ==
  /\ Window \in Nat \ {0} /\ PerWindow \in Nat \ {0} /\ Lifetime \in Nat
  /\ LastTick \in Nat /\ MaxCalls \in Nat
  /\ Keys \intersect (Clients \union [client : Clients, until : Nat]) = {}
  /\ Nothing \notin Entities
  /\ IsFiniteSet(Entities) /\ IsFiniteSet(Slots)

VARIABLES
  now,       \* the clock
  revoked,   \* keys and clients with revokedAt
  issued,    \* the OAuthAccessToken rows: whose, and until when
  licensed,  \* the ModuleLicense row: enabled
  role,      \* the role of the user
  created,   \* the Entity rows
  member,    \* the UserEntityMembership rows of the user, and isDefault
  bucket,    \* the buckets of the rate limit, in memory
  slot,      \* the requests in flight
  calls,     \* history: requests that were made
  passed,    \* history: requests counted and let through since the server
             \*   started, at each tick
  most,      \* history: the most updates of memberships there were at once
  misled     \* history: a request was served that lacked, from its arrival
             \*   on, something its route asks for

accessVars == <<now, revoked, issued, licensed, role, created, member, bucket,
                slot, calls, passed, most, misled>>
grants == <<revoked, issued, licensed, role, created, member, most>>
counts == <<bucket, passed>>

Payers == {Session} \union Keys
Members == {e \in Entities : member[e] # "no"}
Wanted == Entities \union {Nothing}
Accessible(r) == IF r = "admin" THEN created ELSE Members

Asked == {"licence", "entity"}

AtRest == [step |-> "rest", who |-> Nothing, wants |-> Nothing, asks |-> {},
           role |-> "user", lacks |-> {}, gift |-> {}, default |-> Nothing,
           wiped |-> {}]

(* A principal who is not counted yet.                                     *)
Fresh == [count |-> 0, resetAt |-> 0]

(* A server that has been running for a while.                             *)
AccessInit ==
  /\ now = 0 /\ revoked = {} /\ issued = {} /\ licensed = TRUE
  /\ role \in {"user", "admin"}
  /\ created \in SUBSET Entities /\ created # {}
  /\ \E first \in created :
       member = [e \in Entities |-> IF e = first THEN "default" ELSE "no"]
  /\ \E b \in {Fresh} \union [count : 1..PerWindow, resetAt : 1..Window] :
       bucket = [p \in Payers |-> b]
  /\ slot = [s \in Slots |-> AtRest]
  /\ calls = 0 /\ passed = [p \in Payers |-> [t \in 0..LastTick |-> 0]]
  /\ most = 1 /\ misled = FALSE

-----------------------------------------------------------------------------
(* Requests *)

Call(s) == slot[s] = AtRest /\ calls < MaxCalls /\ calls' = calls + 1
At(s, step) == slot[s].step = step
Goes(s, step) == slot' = [slot EXCEPT ![s].step = step]
Ends(s) == slot' = [slot EXCEPT ![s] = AtRest]

(* What requests for these entities lacked is there from now on.           *)
Supplied(what, entities) ==
  [s \in Slots |-> IF slot[s].wants \in entities
                   THEN [slot[s] EXCEPT !.lacks = @ \ {what}] ELSE slot[s]]

-----------------------------------------------------------------------------
(* A request on its way *)

Bearers == {Session} \union Keys \union issued

Valid_TokenOnly(who) ==
  \/ who \in {Session} \union (Keys \ revoked)
  \/ who \in issued /\ who.until > now

(* resolveBearer of a key, of an access token, and getSession.             *)
Valid(who) ==
  \/ who \in {Session} \union (Keys \ revoked)
  \/ who \in issued /\ who.until > now /\ who.client \notin revoked

(* Keys and clients act as administrators, clients at the expense of the   *)
(* user who created them.                                                  *)
Payer(who) == IF who \in Keys THEN who ELSE Session
RoleOf(who) == IF who = Session THEN role ELSE "admin"

Gone(who) ==
  who # Session /\ (IF who \in Keys THEN who \in revoked
                    ELSE who.client \in revoked \/ who.until <= now)

Lacks(who, e, asks) ==
  (IF Gone(who) THEN {"bearer"} ELSE {}) \union
  (IF licensed THEN {} ELSE asks \intersect {"licence"}) \union
  (IF e \in Accessible(RoleOf(who)) \union {Nothing} THEN {}
   ELSE asks \intersect {"entity"})

(* Lists ask for the entities of their user, routes by id and the queue of *)
(* exceptions do not; contracts, orders, requests and accruals ask for a   *)
(* licence, invoices do not.  Without an entity a list is of all that its  *)
(* user may see.                                                           *)
Arrive(s, who, e, asks) ==
  /\ Call(s)
  /\ slot' = [slot EXCEPT ![s] = [AtRest EXCEPT
       !.step = "resolve", !.who = who, !.wants = e, !.asks = asks,
       !.lacks = Lacks(who, e, asks)]]
  /\ UNCHANGED <<now, grants, counts, misled>>

Resolve(s) ==
  LET who == slot[s].who
  IN  /\ At(s, "resolve")
      /\ IF Valid(who)
         THEN slot' = [slot EXCEPT ![s].step = "limit", ![s].role = RoleOf(who)]
         ELSE Ends(s)
      /\ UNCHANGED <<now, grants, counts, calls, misled>>

Refilled(b) ==
  IF b.resetAt <= now THEN [count |-> 0, resetAt |-> now + Window] ELSE b

Used_Before(b) == b.count > PerWindow

Used(b) == b.count >= PerWindow

Limit(s) ==
  LET p == Payer(slot[s].who)
      b == Refilled(bucket[p])
  IN  /\ At(s, "limit")
      /\ bucket' = [bucket EXCEPT ![p] = [b EXCEPT !.count = @ + 1]]
      /\ IF Used(b) THEN Ends(s) /\ UNCHANGED passed
         ELSE /\ Goes(s, "licence")
              /\ passed' = [passed EXCEPT ![p][now] = @ + 1]
      /\ UNCHANGED <<now, grants, calls, misled>>

Licence(s) ==
  /\ At(s, "licence")
  /\ IF "licence" \notin slot[s].asks \/ licensed THEN Goes(s, "scope")
     ELSE Ends(s)
  /\ UNCHANGED <<now, grants, counts, calls, misled>>

(* Served, a list with the rows of the entities it may see, or refused.    *)
Scoped(s) ==
  LET ok == \/ "entity" \notin slot[s].asks
            \/ slot[s].wants \in Accessible(slot[s].role) \union {Nothing}
  IN  /\ At(s, "scope")
      /\ Ends(s)
      /\ misled' = (misled \/ (ok /\ slot[s].lacks # {}))
      /\ UNCHANGED <<now, grants, counts, calls>>

-----------------------------------------------------------------------------
(* Keys, clients and their tokens *)

RevokeKey(s, k) ==
  /\ Call(s) /\ revoked' = revoked \union {k}
  /\ UNCHANGED <<now, issued, licensed, role, created, member, most, counts,
                 slot, misled>>

RevokeClient(s, c) ==
  /\ Call(s) /\ revoked' = revoked \union {c}
  /\ slot' = [slot EXCEPT ![s] = [AtRest EXCEPT !.step = "purge", !.who = c]]
  /\ UNCHANGED <<now, issued, licensed, role, created, member, most, counts,
                 misled>>

PurgeTokens(s) ==
  /\ At(s, "purge")
  /\ issued' = {t \in issued : t.client # slot[s].who}
  /\ Ends(s)
  /\ UNCHANGED <<now, revoked, licensed, role, created, member, most, counts,
                 calls, misled>>

IssueToken(s, c) ==
  /\ Call(s) /\ c \notin revoked
  /\ slot' = [slot EXCEPT ![s] = [AtRest EXCEPT !.step = "issue", !.who = c]]
  /\ UNCHANGED <<now, grants, counts, misled>>

CreateToken(s) ==
  /\ At(s, "issue")
  /\ issued' = issued \union
       {[client |-> slot[s].who, until |-> now + Lifetime]}
  /\ Ends(s)
  /\ UNCHANGED <<now, revoked, licensed, role, created, member, most, counts,
                 calls, misled>>

-----------------------------------------------------------------------------
(* Licence, entities and the user *)

SetModuleEnabled(s, enabled) ==
  /\ Call(s) /\ licensed' = enabled
  /\ slot' = IF enabled THEN Supplied("licence", Wanted) ELSE slot
  /\ UNCHANGED <<now, revoked, issued, role, created, member, most, counts,
                 misled>>

(* An administrator becomes a member of the entity he creates.             *)
CreateEntity(s, e) ==
  /\ Call(s) /\ e \notin created /\ role = "admin"
  /\ created' = created \union {e}
  /\ member' = [member EXCEPT ![e] = "plain"]
  /\ slot' = Supplied("entity", {e})
  /\ UNCHANGED <<now, revoked, issued, licensed, role, most, counts, misled>>

Updating(s) == slot[s].step \in {"wipe", "give", "set"}
(* An update that writes the row of the user holds it.                     *)
Locks(s) == Updating(s) /\ slot[s].role # Nothing
(* It has read the memberships that it takes or clears.                    *)
Reading(s) == slot[s].step \in {"give", "set"}

(* Those that hold the row count once.                                     *)
Together ==
  Cardinality({s \in Slots : Reading(s) /\ ~Locks(s)})
    + (IF \E s \in Slots : Reading(s) /\ Locks(s) THEN 1 ELSE 0)
Counted == most' = IF Together' > most THEN Together' ELSE most

RowFree(r) == r = Nothing \/ ~\E t \in Slots : Locks(t)

Update(s, r, gift, default) ==
  /\ Call(s) /\ gift \subseteq created /\ default \in gift \union {Nothing}
  /\ slot' = [slot EXCEPT ![s] = [AtRest EXCEPT
       !.step = "wipe", !.role = r, !.gift = gift,
       !.default = IF gift = {} \/ default # Nothing THEN default
                   ELSE CHOOSE e \in gift : TRUE]]
  /\ UNCHANGED <<now, grants, counts, misled>>

UpdateUser_RowLast(s, r, gift, default) == Update(s, r, gift, default)

(* updateUser and inviteUser, a transaction: the row of the user comes     *)
(* first and is held until the end, unless the body is of memberships      *)
(* alone, which writes nothing of the row and waits for nobody.            *)
UpdateUser(s, r, gift, default) ==
  RowFree(r) /\ Update(s, r, gift, default)

(* updateUser without memberships.                                         *)
UpdateRole(s, r) ==
  /\ Call(s) /\ RowFree(r) /\ role' = r
  /\ slot' = Supplied("entity", Accessible(r))
  /\ UNCHANGED <<now, revoked, issued, licensed, created, member, most, counts,
                 misled>>

(* deleteMany sees what is committed.  Two that delete the same row end    *)
(* one after the other, either of them first.                              *)
WipeMembers(s) ==
  /\ At(s, "wipe")
  /\ slot' = [slot EXCEPT ![s].step = "give", ![s].wiped = Members]
  /\ Counted
  /\ UNCHANGED <<now, revoked, issued, licensed, role, created, member, counts,
                 calls, misled>>

(* The end of the transaction; the rows in gone are there no longer for    *)
(* whoever read them.                                                      *)
Commits(s, rows, gone) ==
  LET written == IF slot[s].role = Nothing THEN role ELSE slot[s].role
      sees == IF written = "admin" THEN created
              ELSE {e \in Entities : rows[e] # "no"}
      rest == Supplied("entity", sees)
  IN  /\ member' = rows /\ role' = written
      /\ slot' = [t \in Slots |-> IF t = s THEN AtRest
                                  ELSE [rest[t] EXCEPT !.wiped = @ \ gone]]

(* createMany; a user is a member of an entity once.                       *)
GiveMembers(s) ==
  LET q == slot[s]
  IN  /\ At(s, "give")
      /\ IF q.gift \intersect (Members \ q.wiped) # {}
         THEN Ends(s) /\ UNCHANGED <<member, role>>
         ELSE Commits(s, [e \in Entities |->
                           IF e = q.default THEN "default"
                           ELSE IF e \in q.gift THEN "plain"
                           ELSE IF e \in q.wiped THEN "no" ELSE member[e]],
                      q.wiped)
      /\ UNCHANGED <<now, revoked, issued, licensed, created, most, counts,
                     calls, misled>>

(* updateUser with a default and no memberships: updateMany clears what is *)
(* committed.                                                              *)
SetDefaultEntity(s, r, e) ==
  /\ Call(s) /\ RowFree(r) /\ e \in Members
  /\ slot' = [slot EXCEPT ![s] = [AtRest EXCEPT
       !.step = "set", !.role = r, !.default = e, !.wiped = Members]]
  /\ Counted
  /\ UNCHANGED <<now, revoked, issued, licensed, role, created, member, counts,
                 misled>>

(* The membership that was found may be gone.                              *)
MarkDefault(s) ==
  LET q == slot[s]
  IN  /\ At(s, "set")
      /\ IF q.default \notin q.wiped THEN Ends(s) /\ UNCHANGED <<member, role>>
         ELSE Commits(s, [e \in Entities |->
                           IF e = q.default THEN "default"
                           ELSE IF e \in q.wiped THEN "plain" ELSE member[e]],
                      {})
      /\ UNCHANGED <<now, revoked, issued, licensed, created, most, counts,
                     calls, misled>>

-----------------------------------------------------------------------------
(* The server is started again: the buckets were in its memory, requests   *)
(* end where they are, and a transaction is undone.                        *)
Restart ==
  /\ bucket' = [p \in Payers |-> Fresh]
  /\ passed' = [p \in Payers |-> [t \in 0..LastTick |-> 0]]
  /\ slot' = [s \in Slots |-> AtRest]
  /\ UNCHANGED <<now, grants, calls, misled>>

Tick ==
  /\ now < LastTick /\ now' = now + 1
  /\ UNCHANGED <<grants, counts, slot, calls, misled>>

-----------------------------------------------------------------------------
Passes(s) ==
  \/ \E who \in Bearers, e \in Wanted, asks \in SUBSET Asked :
       Arrive(s, who, e, asks)
  \/ Resolve(s)  \/ Limit(s)  \/ Licence(s)  \/ Scoped(s)

Grants(s) ==
  \/ \E k \in Keys : RevokeKey(s, k)
  \/ \E c \in Clients : RevokeClient(s, c) \/ IssueToken(s, c)
  \/ PurgeTokens(s)  \/ CreateToken(s)
  \/ \E enabled \in BOOLEAN : SetModuleEnabled(s, enabled)
  \/ \E e \in Entities : CreateEntity(s, e)
  \/ \E r \in {"user", "admin"} : UpdateRole(s, r)
  \/ \E r \in {"user", "admin", Nothing} :
       \/ \E e \in Entities : SetDefaultEntity(s, r, e)
       \/ \E gift \in SUBSET Entities, default \in Entities \union {Nothing} :
            UpdateUser(s, r, gift, default)
  \/ WipeMembers(s)  \/ GiveMembers(s)  \/ MarkDefault(s)

AccessNext ==
  \/ \E s \in Slots : Passes(s) \/ Grants(s)
  \/ Restart  \/ Tick

AccessSpec == AccessInit /\ [][AccessNext]_accessVars

-----------------------------------------------------------------------------
(* Properties *)

(* Whoever is served had each thing its route asks for at some moment      *)
(* since it came: a key or client revoked before, an access token that     *)
(* outlived the revocation of its client, a licence or a membership that   *)
(* was taken away before it came, opens no route that asks for it.         *)
AdmittedIsEntitled == ~misled

(* In no stretch of time as long as the window does the limit let through  *)
(* more than twice its number: the windows are fixed, and a stretch can    *)
(* meet two of them.                                                       *)
LimitHolds ==
  \A p \in Payers, from \in 0..LastTick :
    MapThenSumSet(LAMBDA t : passed[p][t],
                  {t \in 0..LastTick : from <= t /\ t < from + Window})
      <= 2 * PerWindow

(* A user has one default entity where no update of memberships alone has  *)
(* met another update, and never more than such updates there were at      *)
(* once: those that write the row of the user keep one another out.        *)
DefaultPerOverlap ==
  Cardinality({e \in Entities : member[e] = "default"}) <= most
=============================================================================
