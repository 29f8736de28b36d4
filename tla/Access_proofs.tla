--------------------------- MODULE Access_proofs ---------------------------
(***************************************************************************)
(* What holds of the guards a request passes and of the updates that       *)
(* change what they read, for any number of requests, keys, clients and    *)
(* entities.                                                               *)
(*                                                                         *)
(* A request is followed from its arrival: what it lacked then and still   *)
(* lacks is missing now, as far as the guards before it have not looked;   *)
(* each guard takes one thing off the list or ends the request.            *)
(*                                                                         *)
(* What the limit lets through is a sum over time (module Sums).           *)
(***************************************************************************)
EXTENDS Access, Sums, FiniteSetTheorems, TLAPS

Roles == {"user", "admin"}
Tokens == [client : Clients, until : Nat]
Things == {"bearer", "licence", "entity"}
AccessSteps == {"rest", "resolve", "limit", "licence", "scope", "purge", "issue",
                "wipe", "give", "set"}
Entry == [step : AccessSteps,
          who : {Nothing, Session} \union Keys \union Clients \union Tokens,
          wants : Wanted, asks : SUBSET Asked, role : Roles \union {Nothing},
          lacks : SUBSET Things,
          gift : SUBSET Entities, default : Wanted, wiped : SUBSET Entities]

AccessTypes ==
  /\ now \in Nat /\ revoked \subseteq Keys \union Clients
  /\ issued \subseteq Tokens
  /\ licensed \in BOOLEAN /\ role \in Roles /\ created \subseteq Entities
  /\ member \in [Entities -> {"no", "plain", "default"}]
  /\ slot \in [Slots -> Entry]
  /\ most \in Nat /\ misled \in BOOLEAN

(* What a request gives and takes of memberships.                          *)
Given(q) ==
  /\ q.gift \union q.wiped \subseteq created
  /\ q.step # "set" => q.default \in q.gift \union {Nothing}
  /\ q.step = "set" => q.default \in created
  /\ q.step = "issue" => q.who \in Clients
  /\ q.step = "resolve" => q.who \in {Session} \union Keys \union Tokens

(* What a request lacked when it came and lacks still.                     *)
Lacking(q) ==
  /\ "bearer" \in q.lacks => q.step = "resolve" /\ Gone(q.who)
  /\ "licence" \in q.lacks =>
       /\ "licence" \in q.asks
       /\ ~licensed /\ q.step \in {"resolve", "limit", "licence"}
  /\ "entity" \in q.lacks =>
       /\ "entity" \in q.asks /\ q.wants # Nothing
       /\ q.wants \notin Accessible(IF q.step = "resolve" THEN RoleOf(q.who)
                                    ELSE q.role)

Defaults == {e \in Entities : member[e] = "default"}

AccessInv ==
  /\ AccessTypes
  /\ Members \subseteq created
  /\ \A s \in Slots : Given(slot[s])

LackInv == ~misled /\ \A s \in Slots : Lacking(slot[s])

Readers == {s \in Slots : Reading(s)}
(* The defaults that stay when the updates in V are over.                  *)
Unseen(V) == {d \in Defaults : \A s \in V : d \notin slot[s].wiped}

(* One update holds the row of the user; and each of those that have read  *)
(* the memberships adds one default at most to those it has not seen.      *)
DefaultInv ==
  /\ \A s, t \in Slots : Locks(s) /\ Locks(t) => s = t
  /\ \A V \in SUBSET Readers : Cardinality(Unseen(V)) + Cardinality(V) <= most

LEMMA RestEntry == AtRest \in Entry /\ Given(AtRest) /\ Lacking(AtRest)
BY DEF AtRest, Entry, Given, Lacking, AccessSteps, Wanted, Roles, Things, Asked

LEMMA InitAccess == AccessInit => AccessInv /\ LackInv /\ DefaultInv
<1> SUFFICES ASSUME AccessInit PROVE AccessInv /\ LackInv /\ DefaultInv
  OBVIOUS
<1>1. PICK first \in created :
        member = [e \in Entities |-> IF e = first THEN "default" ELSE "no"]
  BY DEF AccessInit
<1>2. \A s \in Slots : slot[s] = AtRest
  BY DEF AccessInit
<1>3. created \subseteq Entities /\ first \in Entities
  BY DEF AccessInit
<1>4. AccessTypes
  BY <1>1, <1>3, RestEntry DEF AccessInit, AccessTypes, Roles
<1>5. Members = {first} /\ Defaults = {first}
  BY <1>1, <1>3 DEF Members, Defaults
<1>6. AccessInv
  BY <1>2, <1>4, <1>5, RestEntry DEF AccessInv
<1>7. LackInv
  BY <1>2, RestEntry DEF LackInv, AccessInit
<1>8. DefaultInv
  <2>1. \A s \in Slots : ~Reading(s) /\ ~Locks(s)
    BY <1>2 DEF Reading, Locks, Updating, AtRest
  <2>2. Readers = {} /\ Unseen({}) = {first} /\ most = 1
    BY <1>5, <2>1 DEF Readers, Unseen, AccessInit
  <2> QED BY <2>1, <2>2, FS_EmptySet, FS_Singleton DEF DefaultInv
<1> QED BY <1>6, <1>7, <1>8

(* A request goes on, and what it reads and holds of grants stays.         *)
LEMMA Moved ==
  ASSUME AccessInv, NEW s \in Slots, NEW q \in Entry, Given(q),
         slot' = [slot EXCEPT ![s] = q],
         UNCHANGED <<licensed, role, created, member>>, most' \in Nat,
         now' = now, revoked' \subseteq Keys \union Clients,
         revoked \subseteq revoked', issued' \subseteq Tokens
  PROVE  /\ misled' \in BOOLEAN => AccessInv'
         /\ LackInv /\ Lacking(q)' /\ UNCHANGED misled => LackInv'
<1>1. \A t \in Slots : slot'[t] = IF t = s THEN q ELSE slot[t]
  BY DEF AccessInv, AccessTypes
<1>2. slot' \in [Slots -> Entry]
  BY DEF AccessInv, AccessTypes
<1>3. Members' = Members
  BY DEF Members
<1>4. ASSUME misled' \in BOOLEAN PROVE AccessInv'
  BY <1>1, <1>2, <1>3, <1>4 DEF AccessInv, AccessTypes, Given
<1>5. ASSUME LackInv, Lacking(q)', UNCHANGED misled PROVE LackInv'
  <2>1. ASSUME NEW t \in Slots, t # s PROVE Lacking(slot[t])'
    <3>1. slot'[t] = slot[t] /\ Lacking(slot[t])
      BY <1>1, <1>5, <2>1 DEF LackInv
    <3>2. Gone(slot[t].who) => Gone(slot[t].who)'
      BY <3>1 DEF Gone
    <3> QED
      BY <1>3, <3>1, <3>2 DEF Lacking, Accessible, RoleOf
  <2> QED BY <1>1, <1>5, <2>1 DEF LackInv
<1> QED BY <1>4, <1>5

Inv == AccessInv /\ LackInv

(* A request that is neither an update nor new ends or goes one step on.   *)
LEMMA Onward ==
  ASSUME Inv, NEW s \in Slots, slot[s].step # "set",
         NEW o \in AccessSteps \ {"resolve", "issue", "wipe", "give", "set"},
         slot' = [slot EXCEPT ![s].step = o], UNCHANGED <<grants, now, misled>>,
         Lacking([slot[s] EXCEPT !.step = o])
  PROVE  Inv'
<1> PICK q : q = [slot[s] EXCEPT !.step = o]
  OBVIOUS
<1>1. slot[s] \in Entry /\ Given(slot[s])
  BY DEF Inv, AccessInv, AccessTypes
<1>2. q \in Entry /\ q.step = o
  BY <1>1 DEF Entry
<1>3. Given(q)
  BY <1>1, <1>2 DEF Given, Entry
<1>4. slot' = [slot EXCEPT ![s] = q]
  BY DEF Inv, AccessInv, AccessTypes
<1>5. Lacking(q)'
  <2>1. Members' = Members
    BY DEF grants, Members
  <2> QED BY <2>1 DEF grants, Lacking, Gone, Accessible, RoleOf
<1> QED
  BY <1>2, <1>3, <1>4, <1>5, Moved DEF Inv, grants, AccessInv, AccessTypes

LEMMA Rested ==
  ASSUME Inv, NEW s \in Slots, Ends(s),
         UNCHANGED <<licensed, role, created, member, most, misled, now>>,
         revoked' \subseteq Keys \union Clients, revoked \subseteq revoked',
         issued' \subseteq Tokens
  PROVE  Inv'
<1>1. AtRest \in Entry /\ Given(AtRest) /\ Lacking(AtRest)'
  BY RestEntry DEF AtRest, Lacking
<1> QED
  BY <1>1, Moved DEF Ends, Inv, AccessInv, AccessTypes

LEMMA Unmoved ==
  ASSUME Inv, NEW s \in Slots, UNCHANGED slot,
         UNCHANGED <<licensed, role, created, member, most, misled, now>>,
         revoked' \subseteq Keys \union Clients, revoked \subseteq revoked',
         issued' \subseteq Tokens
  PROVE  Inv'
<1>1. /\ slot[s] \in Entry /\ Given(slot[s]) /\ Lacking(slot[s])
      /\ slot' = [slot EXCEPT ![s] = slot[s]]
  BY DEF Inv, AccessInv, AccessTypes, LackInv
<1>2. Lacking(slot[s])'
  <2>1. Members' = Members
    BY DEF Members
  <2> QED BY <1>1, <2>1 DEF Lacking, Gone, Accessible, RoleOf
<1> QED
  BY <1>1, <1>2, Moved DEF Inv, AccessInv, AccessTypes

(* The guards: what the request lacks is what the next guard looks at, or  *)
(* one of those after it.                                                  *)
LEMMA PassesKeep ==
  ASSUME Inv, NEW s \in Slots, Passes(s)
  PROVE  Inv'
<1> DEFINE q == slot[s]
<1>0. /\ q \in Entry /\ Given(q) /\ Lacking(q)
      /\ slot \in [Slots -> Entry]
  BY DEF Inv, AccessInv, AccessTypes, LackInv
<1>1. ASSUME NEW who \in Bearers, NEW e \in Wanted, NEW asks \in SUBSET Asked,
             Arrive(s, who, e, asks)
      PROVE  Inv'
  <2> PICK a : a = [AtRest EXCEPT
                      !.step = "resolve", !.who = who, !.wants = e,
                      !.asks = asks, !.lacks = Lacks(who, e, asks)]
    OBVIOUS
  <2>1. /\ a.step = "resolve" /\ a.who = who /\ a.wants = e /\ a.asks = asks
        /\ a.lacks = Lacks(who, e, asks) /\ a.gift = {} /\ a.default = Nothing
        /\ a.wiped = {}
    BY DEF AtRest
  <2>2. a \in Entry
    <3>1. who \in {Session} \union Keys \union Tokens
      BY DEF Bearers, Inv, AccessInv, AccessTypes
    <3>2. Lacks(who, e, asks) \subseteq Things
      BY DEF Lacks, Things
    <3> QED BY <3>1, <3>2, RestEntry DEF Entry, AtRest, AccessSteps
  <2>3. Given(a)
    <3>1. who \in {Session} \union Keys \union Tokens
      BY DEF Bearers, Inv, AccessInv, AccessTypes
    <3> QED BY <2>1, <3>1 DEF Given
  <2>4. Lacking(a)'
    <3>1. /\ "bearer" \in a.lacks => Gone(who)
          /\ "licence" \in a.lacks => "licence" \in asks /\ ~licensed
          /\ "entity" \in a.lacks =>
               /\ "entity" \in asks
               /\ e \notin Accessible(RoleOf(who)) \union {Nothing}
      BY <2>1 DEF Lacks
    <3>2. Members' = Members /\ UNCHANGED <<grants, now>>
      BY <1>1 DEF Arrive, grants, Members
    <3> QED BY <2>1, <3>1, <3>2 DEF Lacking, grants, Gone, Accessible, RoleOf
  <2>5. slot' = [slot EXCEPT ![s] = a]
    BY <1>1, <2>1 DEF Arrive
  <2> QED
    BY <1>1, <2>2, <2>3, <2>4, <2>5, Moved
    DEF Arrive, grants, Inv, AccessInv, AccessTypes
<1>2. CASE Resolve(s)
  <2>1. CASE Valid(q.who)
    <3> PICK a : a = [q EXCEPT !.step = "limit", !.role = RoleOf(q.who)]
      OBVIOUS
    <3>1. /\ a.step = "limit" /\ a.role = RoleOf(q.who) /\ a.wants = q.wants
          /\ a.lacks = q.lacks /\ a.gift = q.gift /\ a.default = q.default
          /\ a.asks = q.asks /\ a.wiped = q.wiped
      BY <1>0 DEF Entry
    <3>2. a \in Entry
      BY <1>0 DEF Entry, AccessSteps, RoleOf, Roles, Inv, AccessInv, AccessTypes
    <3>5. q.step = "resolve"
      BY <1>2 DEF Resolve, At
    <3>3. Given(a)
      BY <1>0, <3>1, <3>5 DEF Given
    <3>4. ~Gone(q.who)
      BY <2>1, AccessAssumption
      DEF Valid, Gone, Tokens, Inv, AccessInv, AccessTypes
    <3>6. Lacking(a)
      BY <1>0, <3>1, <3>4, <3>5 DEF Lacking
    <3>7. Members' = Members /\ UNCHANGED <<grants, now>>
      BY <1>2 DEF Resolve, grants, Members
    <3>8. slot' = [slot EXCEPT ![s] = a]
      BY <1>0, <1>2, <2>1 DEF Resolve
    <3>9. Lacking(a)'
      BY <3>6, <3>7 DEF Lacking, grants, Gone, Accessible, RoleOf
    <3> QED
      BY <1>2, <3>2, <3>3, <3>7, <3>8, <3>9, Moved
      DEF Resolve, grants, Inv, AccessInv, AccessTypes
  <2>2. CASE ~Valid(q.who)
    BY <1>2, <2>2, Rested DEF Resolve, grants, Inv, AccessInv, AccessTypes
  <2> QED BY <2>1, <2>2
<1>3. CASE Limit(s)
  <2>1. CASE Ends(s)
    BY <1>3, <2>1, Rested DEF Limit, grants, Inv, AccessInv, AccessTypes
  <2>2. CASE Goes(s, "licence")
    <3>1. q.step = "limit"
      BY <1>3 DEF Limit, At
    <3>2. Lacking([q EXCEPT !.step = "licence"])
      BY <1>0, <3>1 DEF Lacking, Entry
    <3> QED BY <1>3, <2>2, <3>1, <3>2, Onward DEF Limit, Goes, AccessSteps
  <2> QED BY <1>3, <2>1, <2>2 DEF Limit
<1>4. CASE Licence(s)
  <2>1. CASE "licence" \notin q.asks \/ licensed
    <3>1. q.step = "licence"
      BY <1>4 DEF Licence, At
    <3>2. Lacking([q EXCEPT !.step = "scope"])
      BY <1>0, <2>1, <3>1 DEF Lacking, Entry
    <3> QED BY <1>4, <2>1, <3>1, <3>2, Onward DEF Licence, Goes, AccessSteps
  <2>2. CASE ~("licence" \notin q.asks \/ licensed)
    BY <1>4, <2>2, Rested DEF Licence, grants, Inv, AccessInv, AccessTypes
  <2> QED BY <2>1, <2>2
<1>5. CASE Scoped(s)
  <2>1. q.step = "scope"
    BY <1>5 DEF Scoped, At
  <2>2. \/ "entity" \notin q.asks
        \/ q.wants \in Accessible(q.role) \union {Nothing}
        => q.lacks = {}
    BY <1>0, <2>1 DEF Lacking, Entry, Things
  <2>3. misled' = misled
    BY <1>5, <2>2 DEF Scoped, Inv, LackInv, AccessInv, AccessTypes
  <2> QED
    BY <1>5, <2>3, Rested DEF Scoped, grants, Inv, AccessInv, AccessTypes
<1> QED BY <1>1, <1>2, <1>3, <1>4, <1>5 DEF Passes

LEMMA TokensKeep ==
  ASSUME Inv, NEW s \in Slots,
         \/ \E k \in Keys : RevokeKey(s, k)
         \/ \E c \in Clients : RevokeClient(s, c) \/ IssueToken(s, c)
         \/ PurgeTokens(s)  \/ CreateToken(s)
  PROVE  Inv'
<1>0. /\ slot[s] \in Entry /\ Given(slot[s])
      /\ AccessTypes
  BY DEF Inv, AccessInv, AccessTypes
<1>1. ASSUME NEW k \in Keys, RevokeKey(s, k) PROVE Inv'
  BY <1>0, <1>1, Unmoved DEF RevokeKey, AccessTypes
<1>2. ASSUME NEW c \in Clients, NEW o \in {"purge", "issue"},
             slot' = [slot EXCEPT ![s] =
                        [AtRest EXCEPT !.step = o, !.who = c]],
             UNCHANGED <<licensed, role, created, member, most, misled, now,
                         issued>>,
             revoked' \subseteq Keys \union Clients, revoked \subseteq revoked'
      PROVE  Inv'
  <2> DEFINE q == [AtRest EXCEPT !.step = o, !.who = c]
  <2>1. /\ q.step = o /\ q.who = c /\ q.lacks = {} /\ q.gift = {}
        /\ q.default = Nothing /\ q.wiped = {}
    BY DEF AtRest
  <2>2. q \in Entry
    BY RestEntry DEF Entry, AtRest, AccessSteps
  <2> HIDE DEF q
  <2>3. Given(q) /\ Lacking(q)'
    BY <2>1 DEF Given, Lacking
  <2> QED
    BY <1>0, <1>2, <2>1, <2>2, <2>3, Moved
    DEF q, Inv, AccessInv, AccessTypes
<1>3. ASSUME NEW c \in Clients, RevokeClient(s, c) PROVE Inv'
  BY <1>0, <1>2, <1>3 DEF RevokeClient, AccessTypes
<1>4. ASSUME NEW c \in Clients, IssueToken(s, c) PROVE Inv'
  BY <1>0, <1>2, <1>4 DEF IssueToken, grants, AccessTypes
<1>5. CASE PurgeTokens(s)
  BY <1>0, <1>5, Rested DEF PurgeTokens, AccessTypes
<1>6. CASE CreateToken(s)
  <2>1. slot[s].who \in Clients
    BY <1>0, <1>6 DEF CreateToken, At, Given
  <2>2. issued' \subseteq Tokens
    BY <1>0, <1>6, <2>1, AccessAssumption DEF CreateToken, AccessTypes, Tokens
  <2> QED BY <1>0, <1>6, <2>2, Rested DEF CreateToken, AccessTypes
<1> QED BY <1>1, <1>3, <1>4, <1>5, <1>6

(* Taking what is there now off the lists changes nothing else.            *)
Struck(F, what, entities) ==
  /\ F \in [Slots -> Entry]
  /\ \A s \in Slots :
       /\ F[s].step = slot[s].step /\ F[s].who = slot[s].who
       /\ F[s].wants = slot[s].wants /\ F[s].role = slot[s].role
       /\ F[s].gift = slot[s].gift /\ F[s].default = slot[s].default
       /\ F[s].wiped = slot[s].wiped /\ F[s].asks = slot[s].asks
       /\ F[s].lacks = IF slot[s].wants \in entities
                       THEN slot[s].lacks \ {what} ELSE slot[s].lacks

LEMMA SuppliedSlots ==
  ASSUME AccessTypes, NEW what, NEW entities
  PROVE  Struck(Supplied(what, entities), what, entities)
<1> DEFINE F == Supplied(what, entities)
<1>1. \A s \in Slots :
        F[s] = IF slot[s].wants \in entities
               THEN [slot[s] EXCEPT !.lacks = slot[s].lacks \ {what}]
               ELSE slot[s]
  BY DEF Supplied
<1>2. F = [s \in Slots |-> F[s]]
  BY DEF Supplied
<1>3. \A s \in Slots :
        [slot[s] EXCEPT !.lacks = slot[s].lacks \ {what}] \in Entry
  BY DEF AccessTypes, Entry
<1>4. \A s \in Slots : F[s] \in Entry
  BY <1>1, <1>3 DEF AccessTypes
<1> HIDE DEF F
<1>5. F \in [Slots -> Entry]
  BY <1>2, <1>4
<1>6. \A s \in Slots : slot[s] \in Entry
  BY DEF AccessTypes
<1>7. \A s \in Slots :
        /\ F[s].step = slot[s].step /\ F[s].who = slot[s].who
        /\ F[s].wants = slot[s].wants /\ F[s].role = slot[s].role
        /\ F[s].gift = slot[s].gift /\ F[s].default = slot[s].default
        /\ F[s].wiped = slot[s].wiped /\ F[s].asks = slot[s].asks
        /\ F[s].lacks = IF slot[s].wants \in entities
                        THEN slot[s].lacks \ {what} ELSE slot[s].lacks
  BY <1>1, <1>6 DEF Entry
<1> QED BY <1>5, <1>7 DEF F, Struck

LEMMA LicenceKeeps ==
  ASSUME Inv, NEW s \in Slots, NEW enabled \in BOOLEAN,
         SetModuleEnabled(s, enabled)
  PROVE  Inv'
<1>0. /\ AccessTypes /\ LackInv
      /\ UNCHANGED <<now, revoked, issued, role, created, member, most, misled>>
      /\ licensed' = enabled
      /\ slot' = IF enabled THEN Supplied("licence", Wanted) ELSE slot
  BY DEF SetModuleEnabled, Inv, AccessInv
<1>1. /\ slot' \in [Slots -> Entry]
      /\ \A t \in Slots :
           /\ slot'[t].step = slot[t].step /\ slot'[t].who = slot[t].who
           /\ slot'[t].wants = slot[t].wants /\ slot'[t].role = slot[t].role
           /\ slot'[t].gift = slot[t].gift /\ slot'[t].default = slot[t].default
           /\ slot'[t].wiped = slot[t].wiped /\ slot'[t].asks = slot[t].asks
           /\ slot'[t].lacks \subseteq slot[t].lacks
           /\ enabled => "licence" \notin slot'[t].lacks
  <2>1. CASE enabled
    <3>1. \A t \in Slots : slot[t].wants \in Wanted
      BY <1>0 DEF AccessTypes, Entry
    <3>2. Struck(slot', "licence", Wanted)
      BY <1>0, <2>1, SuppliedSlots
    <3> QED BY <2>1, <3>1, <3>2 DEF Struck
  <2>2. CASE ~enabled
    BY <1>0, <2>2 DEF AccessTypes
  <2> QED BY <2>1, <2>2
<1>2. Members' = Members
  BY <1>0 DEF Members
<1>3. AccessInv'
  BY <1>0, <1>1, <1>2 DEF Inv, AccessInv, AccessTypes, Given
<1>4. LackInv'
  BY <1>0, <1>1, <1>2 DEF LackInv, Lacking, Gone, Accessible, RoleOf
<1> QED BY <1>3, <1>4 DEF Inv

LEMMA EntityKeeps ==
  ASSUME Inv, NEW s \in Slots, NEW e \in Entities, CreateEntity(s, e)
  PROVE  Inv'
<1>0. /\ AccessTypes /\ Members \subseteq created /\ LackInv
      /\ UNCHANGED <<now, revoked, issued, licensed, role, most, misled>>
      /\ created' = created \union {e} /\ e \notin created
      /\ member' = [member EXCEPT ![e] = "plain"]
      /\ slot' = Supplied("entity", {e})
  BY DEF CreateEntity, Inv, AccessInv
<1>1. /\ slot' \in [Slots -> Entry]
      /\ \A t \in Slots :
           /\ slot'[t].step = slot[t].step /\ slot'[t].who = slot[t].who
           /\ slot'[t].wants = slot[t].wants /\ slot'[t].role = slot[t].role
           /\ slot'[t].gift = slot[t].gift /\ slot'[t].default = slot[t].default
           /\ slot'[t].wiped = slot[t].wiped /\ slot'[t].asks = slot[t].asks
           /\ slot'[t].lacks \subseteq slot[t].lacks
           /\ slot[t].wants = e => "entity" \notin slot'[t].lacks
  <2>1. Struck(slot', "entity", {e})
    BY <1>0, SuppliedSlots
  <2> QED BY <2>1 DEF Struck
<1>2. Members' = Members \union {e}
  BY <1>0 DEF AccessTypes, Members
<1>3. AccessInv'
  <2>1. AccessTypes'
    BY <1>0, <1>1 DEF AccessTypes
  <2>2. ASSUME NEW t \in Slots PROVE Given(slot[t])'
    <3>1. Given(slot[t]) /\ created \subseteq created'
      BY <1>0 DEF Inv, AccessInv
    <3> QED BY <1>1, <3>1 DEF Given
  <2> QED BY <1>0, <1>2, <2>1, <2>2 DEF AccessInv
<1>4. ASSUME NEW t \in Slots PROVE Lacking(slot[t])'
  <2>1. Lacking(slot[t])
    BY <1>0 DEF LackInv
  <2>2. /\ "bearer" \in slot'[t].lacks =>
             slot'[t].step = "resolve" /\ Gone(slot[t].who)'
        /\ "licence" \in slot'[t].lacks =>
             /\ "licence" \in slot'[t].asks
             /\ ~licensed' /\ slot'[t].step \in {"resolve", "limit", "licence"}
    BY <1>0, <1>1, <2>1 DEF Lacking, Gone
  <2>3. ASSUME NEW r, slot[t].wants \notin Accessible(r), slot[t].wants # e
        PROVE  slot[t].wants \notin Accessible(r)'
    BY <1>0, <1>2, <2>3 DEF Accessible
  <2>4. RoleOf(slot[t].who)' = RoleOf(slot'[t].who)
    BY <1>0, <1>1 DEF RoleOf
  <2>5. ASSUME "entity" \in slot'[t].lacks
        PROVE  /\ "entity" \in slot'[t].asks /\ slot'[t].wants # Nothing
               /\ slot'[t].wants \notin
                    Accessible(IF slot[t].step = "resolve"
                               THEN RoleOf(slot[t].who) ELSE slot[t].role)'
    <3>1. PICK r : r = IF slot[t].step = "resolve" THEN RoleOf(slot[t].who)
                       ELSE slot[t].role
      OBVIOUS
    <3>2. /\ "entity" \in slot[t].asks /\ slot[t].wants # Nothing
          /\ slot[t].wants \notin Accessible(r) /\ slot[t].wants # e
      BY <1>1, <2>1, <2>5, <3>1 DEF Lacking
    <3>3. slot[t].wants \notin Accessible(r)'
      BY <2>3, <3>2
    <3>4. r = (IF slot[t].step = "resolve" THEN RoleOf(slot[t].who)
               ELSE slot[t].role)'
      <4>1. /\ slot'[t].step = slot[t].step /\ slot'[t].who = slot[t].who
            /\ slot'[t].role = slot[t].role
        BY <1>1
      <4>2. role' = role
        BY <1>0
      <4> QED BY <3>1, <4>1, <4>2 DEF RoleOf
    <3>5. /\ "entity" \in slot'[t].asks
          /\ slot'[t].wants = slot[t].wants
      BY <1>1, <3>2
    <3> QED BY <3>2, <3>3, <3>4, <3>5 DEF Accessible
  <2> QED BY <1>1, <2>2, <2>5 DEF Lacking, Accessible, RoleOf
<1>5. LackInv'
  BY <1>0, <1>4 DEF LackInv
<1> QED BY <1>3, <1>5 DEF Inv

LEMMA UpdateKeeps ==
  ASSUME Inv, NEW s \in Slots, NEW r \in Roles \union {Nothing},
         NEW gift \in SUBSET Entities, NEW default \in Entities \union {Nothing},
         Update(s, r, gift, default)
  PROVE  Inv'
<1> PICK d : d = IF gift = {} \/ default # Nothing THEN default
                 ELSE CHOOSE x \in gift : TRUE
  OBVIOUS
<1> PICK q : q = [AtRest EXCEPT !.step = "wipe", !.role = r, !.gift = gift,
                                !.default = d]
  OBVIOUS
<1>1. /\ gift \subseteq created /\ default \in gift \union {Nothing}
      /\ slot' = [slot EXCEPT ![s] = q]
      /\ UNCHANGED <<now, grants, misled>>
  BY DEF Update
<1>2. d \in gift \union {Nothing}
  BY <1>1
<1>3. /\ q.step = "wipe" /\ q.gift = gift /\ q.default = d
      /\ q.lacks = {} /\ q.wiped = {}
  BY DEF AtRest
<1>4. q \in Entry
  <2>1. d \in Wanted /\ gift \in SUBSET Entities
    BY <1>2 DEF Wanted
  <2>2. "wipe" \in AccessSteps
    BY DEF AccessSteps
  <2> QED BY <2>1, <2>2, RestEntry DEF Entry
<1>5. Given(q)
  BY <1>1, <1>2, <1>3 DEF Given
<1>6. Lacking(q)'
  BY <1>3 DEF Lacking
<1> QED
  BY <1>1, <1>3, <1>4, <1>5, <1>6, Moved
  DEF grants, Inv, AccessInv, AccessTypes

LEMMA CountedType ==
  ASSUME most \in Nat, Counted
  PROVE  most' \in Nat /\ most <= most' /\ Together' <= most'
<1> DEFINE A == {t \in Slots : Reading(t)' /\ ~Locks(t)'}
<1>1. IsFiniteSet(A)
  BY AccessAssumption, FS_Subset
<1>2. Cardinality(A) \in Nat
  BY <1>1, FS_CardinalityType
<1>3. Together' \in Nat
  BY <1>2 DEF Together
<1> QED BY <1>3 DEF Counted

LEMMA WipeKeeps ==
  ASSUME Inv, NEW s \in Slots, WipeMembers(s)
  PROVE  Inv'
<1> PICK q : q = [slot[s] EXCEPT !.step = "give", !.wiped = Members]
  OBVIOUS
<1>0. /\ slot[s] \in Entry /\ Given(slot[s]) /\ Lacking(slot[s])
      /\ slot[s].step = "wipe"
      /\ slot \in [Slots -> Entry]
  BY DEF WipeMembers, At, Inv, AccessInv, AccessTypes, LackInv
<1>1. /\ q.step = "give" /\ q.wiped = Members /\ q.gift = slot[s].gift
      /\ q.default = slot[s].default /\ q.lacks = slot[s].lacks
      /\ q.wants = slot[s].wants /\ q.role = slot[s].role
  BY <1>0 DEF Entry
<1>2. q \in Entry
  BY <1>0 DEF Entry, Members, AccessSteps
<1>3. Given(q)
  BY <1>0, <1>1 DEF Given, Inv, AccessInv
<1>4. /\ UNCHANGED <<now, revoked, issued, licensed, role, created, member,
                     misled>>
      /\ slot' = [slot EXCEPT ![s] = q]
      /\ most' \in Nat /\ Members' = Members
  BY <1>0, CountedType DEF WipeMembers, Members, Inv, AccessInv, AccessTypes
<1>5. Lacking(q)'
  BY <1>0, <1>1, <1>4 DEF Lacking, Gone, Accessible, RoleOf
<1> QED BY <1>2, <1>3, <1>4, <1>5, Moved DEF Inv, AccessInv, AccessTypes

LEMMA SetKeeps ==
  ASSUME Inv, NEW s \in Slots, NEW r \in Roles \union {Nothing},
         NEW e \in Entities, SetDefaultEntity(s, r, e)
  PROVE  Inv'
<1> PICK q : q = [AtRest EXCEPT !.step = "set", !.role = r, !.default = e,
                                !.wiped = Members]
  OBVIOUS
<1>1. /\ q.step = "set" /\ q.wiped = Members /\ q.gift = {} /\ q.default = e
      /\ q.lacks = {}
  BY DEF AtRest
<1>2. q \in Entry
  BY RestEntry DEF Entry, AtRest, AccessSteps, Wanted, Members
<1>3. e \in created
  BY DEF SetDefaultEntity, Inv, AccessInv
<1>4. /\ UNCHANGED <<now, revoked, issued, licensed, role, created, member,
                     misled>>
      /\ slot' = [slot EXCEPT ![s] = q]
      /\ most' \in Nat
  BY CountedType DEF SetDefaultEntity, Inv, AccessInv, AccessTypes
<1>5. Given(q) /\ Lacking(q)'
  BY <1>1, <1>3 DEF Given, Lacking, Inv, AccessInv
<1> QED BY <1>2, <1>4, <1>5, Moved DEF Inv, AccessInv, AccessTypes

(* The members in rows, and what they let a role see.                      *)
Those(rows) == {e \in Entities : rows[e] # "no"}
Sights(r, rows) == IF r = "admin" THEN created ELSE Those(rows)
(* f is q, perhaps with less to lack and less that it has read.            *)
Lighter(f, q, sees) ==
  /\ f.step = q.step /\ f.who = q.who /\ f.wants = q.wants /\ f.role = q.role
  /\ f.gift = q.gift /\ f.default = q.default /\ f.asks = q.asks
  /\ f.wiped \subseteq q.wiped /\ f.lacks \subseteq q.lacks
  /\ q.wants \in sees => "entity" \notin f.lacks

(* Rows and role are written: what they let a request see it lacks no more. *)
LEMMA WrittenKeeps ==
  ASSUME Inv, NEW rows \in [Entities -> {"no", "plain", "default"}],
         NEW r \in Roles, NEW sees, sees = Sights(r, rows),
         Those(rows) \subseteq created,
         member' = rows, role' = r,
         UNCHANGED <<now, revoked, issued, licensed, created, most, misled>>,
         slot' \in [Slots -> Entry],
         \A t \in Slots :
           \/ slot'[t] = AtRest
           \/ Lighter(slot'[t], slot[t], sees)
  PROVE  Inv'
<1>0. AccessTypes /\ LackInv
  BY DEF Inv, AccessInv
<1>1. /\ Members' \subseteq created
      /\ sees = IF r = "admin" THEN created ELSE Members'
  BY DEF Members, Sights, Those
<1>2. ASSUME NEW t \in Slots PROVE Given(slot[t])'
  <2>1. CASE slot'[t] = AtRest
    BY <2>1 DEF Given, AtRest
  <2>2. CASE slot'[t] # AtRest
    <3>1. Given(slot[t]) /\ created' = created
      BY DEF Inv, AccessInv
    <3>2. /\ slot'[t].step = slot[t].step /\ slot'[t].who = slot[t].who
          /\ slot'[t].gift = slot[t].gift
          /\ slot'[t].default = slot[t].default
          /\ slot'[t].wiped \subseteq slot[t].wiped
      BY <2>2 DEF Lighter
    <3> QED BY <3>1, <3>2 DEF Given
  <2> QED BY <2>1, <2>2
<1>3. AccessInv'
  BY <1>0, <1>1, <1>2 DEF AccessInv, AccessTypes
<1>4. ASSUME NEW t \in Slots PROVE Lacking(slot[t])'
  <2>1. CASE slot'[t] = AtRest
    BY <2>1 DEF Lacking, AtRest
  <2>2. CASE slot'[t] # AtRest
    <3>1. /\ slot'[t].step = slot[t].step /\ slot'[t].who = slot[t].who
          /\ slot'[t].wants = slot[t].wants /\ slot'[t].role = slot[t].role
          /\ slot'[t].asks = slot[t].asks
          /\ slot'[t].lacks \subseteq slot[t].lacks
          /\ slot[t].wants \in sees => "entity" \notin slot'[t].lacks
          /\ Lacking(slot[t])
      BY <1>0, <2>2 DEF LackInv, Lighter
    <3>2. /\ "bearer" \in slot'[t].lacks =>
               slot'[t].step = "resolve" /\ Gone(slot[t].who)'
          /\ "licence" \in slot'[t].lacks =>
               /\ "licence" \in slot'[t].asks
               /\ ~licensed' /\ slot'[t].step \in {"resolve", "limit", "licence"}
      BY <3>1 DEF Lacking, Gone
    <3>3. ASSUME "entity" \in slot'[t].lacks
          PROVE  /\ "entity" \in slot'[t].asks
                 /\ slot'[t].wants # Nothing
                 /\ slot'[t].wants \notin
                      (IF (IF slot'[t].step = "resolve" THEN
                             (IF slot[t].who = Session THEN r ELSE "admin")
                           ELSE slot'[t].role) = "admin" THEN created
                       ELSE Members')
      <4> DEFINE w == slot[t].wants
      <4>1. w \notin sees /\ slot'[t].wants = w /\ w # Nothing
        BY <3>1, <3>3 DEF Lacking
      <4>2. \/ w \notin created
            \/ /\ slot[t].step = "resolve" /\ slot[t].who = Session
               /\ r # "admin"
            \/ slot[t].step # "resolve" /\ slot[t].role # "admin"
        BY <1>1, <3>1, <3>3, <4>1 DEF Lacking, Accessible, RoleOf
      <4>3. r = "admin" => w \notin created
        BY <1>1, <4>1
      <4>4. w \notin Members'
        BY <1>1, <4>1
      <4>5. "entity" \in slot[t].asks
        BY <3>1, <3>3 DEF Lacking
      <4> QED BY <3>1, <4>1, <4>2, <4>3, <4>4, <4>5
    <3> QED
      BY <3>1, <3>2, <3>3 DEF Lacking, Accessible, RoleOf
  <2> QED BY <2>1, <2>2
<1> QED BY <1>0, <1>3, <1>4 DEF Inv, LackInv

LEMMA RoleKeeps ==
  ASSUME Inv, NEW s \in Slots, NEW r \in Roles, UpdateRole(s, r)
  PROVE  Inv'
<1> PICK sees : sees = Accessible(r)
  OBVIOUS
<1>1. /\ AccessTypes /\ Members \subseteq created
      /\ sees = Sights(r, member)
      /\ slot' = Supplied("entity", sees) /\ role' = r /\ member' = member
      /\ UNCHANGED <<now, revoked, issued, licensed, created, most, misled>>
  BY DEF UpdateRole, Accessible, Members, Inv, AccessInv, Sights, Those
<1>2. Struck(slot', "entity", sees)
  BY <1>1, SuppliedSlots
<1>3. /\ member \in [Entities -> {"no", "plain", "default"}]
      /\ Those(member) \subseteq created
  BY <1>1 DEF AccessTypes, Members, Those
<1>4. slot' \in [Slots -> Entry]
  BY <1>2 DEF Struck
<1>5. \A t \in Slots : Lighter(slot'[t], slot[t], sees)
  BY <1>2 DEF Struck, Lighter
<1> QED BY <1>1, <1>3, <1>4, <1>5, WrittenKeeps

(* What is left of the requests when one of them commits.                  *)
LEMMA CommitSlots ==
  ASSUME AccessTypes, NEW s \in Slots, NEW rows, NEW gone, Commits(s, rows, gone)
  PROVE  /\ slot' \in [Slots -> Entry]
         /\ slot'[s] = AtRest
         /\ \A t \in Slots \ {s} :
              /\ Lighter(slot'[t], slot[t], Sights(role', rows))
              /\ slot'[t].wiped = slot[t].wiped \ gone
<1> PICK sees : sees = Sights(role', rows)
  OBVIOUS
<1> PICK F : F = Supplied("entity", sees)
  OBVIOUS
<1>1. slot' = [t \in Slots |-> IF t = s THEN AtRest
                               ELSE [F[t] EXCEPT !.wiped = F[t].wiped \ gone]]
  BY DEF Commits, Sights, Those
<1>2. Struck(F, "entity", sees)
  BY SuppliedSlots
<1>3. \A t \in Slots : F[t] \in Entry
  BY <1>2 DEF Struck
<1>4. ASSUME NEW t \in Slots
      PROVE  [F[t] EXCEPT !.wiped = F[t].wiped \ gone] \in Entry
  <2>1. PICK f : f = F[t] /\ f \in Entry
    BY <1>3
  <2>2. PICK w : w = f.wiped \ gone /\ w \in SUBSET Entities
    BY <2>1 DEF Entry
  <2>3. [f EXCEPT !.wiped = w] \in Entry
    BY <2>1, <2>2 DEF Entry
  <2> QED BY <2>1, <2>2, <2>3
<1>5. slot' \in [Slots -> Entry] /\ slot'[s] = AtRest
  BY <1>1, <1>4, RestEntry
<1>6. ASSUME NEW t \in Slots \ {s}
      PROVE  /\ Lighter(slot'[t], slot[t], sees)
             /\ slot'[t].wiped = slot[t].wiped \ gone
  <2>1. PICK f : f = F[t] /\ f \in Entry
    BY <1>3
  <2>2. /\ f.step = slot[t].step /\ f.who = slot[t].who
        /\ f.wants = slot[t].wants /\ f.role = slot[t].role
        /\ f.gift = slot[t].gift /\ f.default = slot[t].default
        /\ f.wiped = slot[t].wiped /\ f.asks = slot[t].asks
        /\ f.lacks = IF slot[t].wants \in sees
                     THEN slot[t].lacks \ {"entity"} ELSE slot[t].lacks
    BY <1>2, <2>1 DEF Struck
  <2>3. PICK g : g = [f EXCEPT !.wiped = f.wiped \ gone]
    OBVIOUS
  <2>4. slot'[t] = g
    BY <1>1, <2>1, <2>3
  <2>5. /\ g.step = f.step /\ g.who = f.who /\ g.wants = f.wants
        /\ g.role = f.role /\ g.gift = f.gift /\ g.default = f.default
        /\ g.asks = f.asks /\ g.lacks = f.lacks
        /\ g.wiped = f.wiped \ gone
    BY <2>1, <2>3 DEF Entry
  <2>6. Lighter(g, slot[t], sees) /\ g.wiped = slot[t].wiped \ gone
    BY <2>2, <2>5 DEF Lighter
  <2> QED BY <2>4, <2>6
<1> QED BY <1>5, <1>6

LEMMA CommitKeeps ==
  ASSUME Inv, NEW s \in Slots,
         NEW rows \in [Entities -> {"no", "plain", "default"}], NEW gone,
         Those(rows) \subseteq created, Updating(s), Commits(s, rows, gone),
         UNCHANGED <<now, revoked, issued, licensed, created, most, misled>>
  PROVE  Inv'
<1>1. AccessTypes /\ slot[s] \in Entry
  BY DEF Inv, AccessInv, AccessTypes
<1>2. member' = rows /\ role' \in Roles
  BY <1>1 DEF Commits, AccessTypes, Entry
<1>3. /\ slot' \in [Slots -> Entry]
      /\ slot'[s] = AtRest
      /\ \A t \in Slots \ {s} : Lighter(slot'[t], slot[t], Sights(role', rows))
  BY <1>1, CommitSlots
<1> QED BY <1>2, <1>3, WrittenKeeps

LEMMA GiveKeeps ==
  ASSUME Inv, NEW s \in Slots, GiveMembers(s)
  PROVE  Inv'
<1> PICK q : q = slot[s]
  OBVIOUS
<1> PICK rows : rows = [e \in Entities |->
                         IF e = q.default THEN "default"
                         ELSE IF e \in q.gift THEN "plain"
                         ELSE IF e \in q.wiped THEN "no" ELSE member[e]]
  OBVIOUS
<1>1. /\ AccessTypes /\ Members \subseteq created /\ Given(q) /\ q.step = "give"
      /\ UNCHANGED <<now, revoked, issued, licensed, created, most, misled>>
      /\ created \subseteq Entities
  BY DEF GiveMembers, At, Inv, AccessInv, AccessTypes
<1>2. CASE Ends(s) /\ UNCHANGED <<member, role>>
  BY <1>1, <1>2, Rested DEF AccessTypes
<1>3. CASE Commits(s, rows, q.wiped)
  <2>1. rows \in [Entities -> {"no", "plain", "default"}]
    BY <1>1 DEF AccessTypes
  <2>2. \A e \in Entities :
          rows[e] # "no" => e = q.default \/ e \in q.gift \/ e \in Members
    BY DEF Members
  <2>3. Those(rows) \subseteq created
    BY <1>1, <2>2, AccessAssumption DEF Given, Those
  <2>4. Updating(s)
    BY <1>1 DEF Updating
  <2> QED BY <1>1, <1>3, <2>1, <2>3, <2>4, CommitKeeps
<1> QED BY <1>2, <1>3 DEF GiveMembers

LEMMA MarkKeeps ==
  ASSUME Inv, NEW s \in Slots, MarkDefault(s)
  PROVE  Inv'
<1> PICK q : q = slot[s]
  OBVIOUS
<1> PICK rows : rows = [e \in Entities |->
                         IF e = q.default THEN "default"
                         ELSE IF e \in q.wiped THEN "plain" ELSE member[e]]
  OBVIOUS
<1>1. /\ AccessTypes /\ Members \subseteq created /\ Given(q) /\ q.step = "set"
      /\ UNCHANGED <<now, revoked, issued, licensed, created, most, misled>>
  BY DEF MarkDefault, At, Inv, AccessInv, AccessTypes
<1>2. CASE Ends(s) /\ UNCHANGED <<member, role>>
  BY <1>1, <1>2, Rested DEF AccessTypes
<1>3. CASE Commits(s, rows, {})
  <2>1. rows \in [Entities -> {"no", "plain", "default"}]
    BY <1>1 DEF AccessTypes
  <2>2. \A e \in Entities :
          rows[e] # "no" => e = q.default \/ e \in q.wiped \/ e \in Members
    BY DEF Members
  <2>3. Those(rows) \subseteq created
    BY <1>1, <2>2 DEF Given, Those
  <2>4. Updating(s)
    BY <1>1 DEF Updating
  <2> QED BY <1>1, <1>3, <2>1, <2>3, <2>4, CommitKeeps
<1> QED BY <1>2, <1>3 DEF MarkDefault

LEMMA NextKeeps ==
  ASSUME Inv, [AccessNext]_accessVars
  PROVE  Inv'
<1>1. CASE UNCHANGED accessVars
  BY <1>1
  DEF accessVars, grants, counts, Inv, AccessInv, AccessTypes, LackInv,
      Given, Lacking, Gone, Accessible, RoleOf, Members
<1>2. ASSUME NEW s \in Slots, Grants(s) PROVE Inv'
  BY <1>2, TokensKeep, LicenceKeeps, EntityKeeps, RoleKeeps, SetKeeps,
     UpdateKeeps, WipeKeeps, GiveKeeps, MarkKeeps
  DEF Grants, Roles, UpdateUser
<1>3. CASE Restart
  <2>1. /\ \A s \in Slots : slot'[s] = AtRest
        /\ slot' \in [Slots -> Entry]
        /\ UNCHANGED <<now, grants, misled>>
        /\ Members' = Members
    BY <1>3, RestEntry DEF Restart, grants, Members
  <2>2. AccessInv'
    BY <2>1, RestEntry DEF Inv, AccessInv, AccessTypes, grants, Given, AtRest
  <2>3. LackInv'
    BY <2>1 DEF Inv, LackInv, Lacking, AtRest
  <2> QED BY <2>2, <2>3 DEF Inv
<1>4. CASE Tick
  <2>1. /\ UNCHANGED <<grants, slot, misled>> /\ now' = now + 1
        /\ Members' = Members
    BY <1>4 DEF Tick, grants, Members
  <2>2. AccessInv'
    BY <2>1 DEF Inv, AccessInv, AccessTypes, grants, Given
  <2>3. ASSUME NEW s \in Slots PROVE Lacking(slot[s])'
    <3>0. slot[s].step = "resolve" =>
            slot[s].who \in {Session} \union Keys \union Tokens
      BY DEF Inv, AccessInv, Given
    <3>1. slot[s].step = "resolve" /\ Gone(slot[s].who) => Gone(slot[s].who)'
      <4>1. now \in Nat
        BY DEF Inv, AccessInv, AccessTypes
      <4>2. CASE slot[s].who \in Tokens
        <5>1. slot[s].who.until \in Nat
          BY <4>2 DEF Tokens
        <5> QED BY <2>1, <4>1, <5>1 DEF Gone, grants
      <4>3. CASE slot[s].who \in {Session} \union Keys
        BY <2>1, <4>3 DEF Gone, grants
      <4> QED BY <3>0, <4>2, <4>3
    <3>2. Lacking(slot[s])
      BY DEF Inv, LackInv
    <3> QED BY <2>1, <3>1, <3>2 DEF Lacking, grants, Accessible, RoleOf
  <2>4. LackInv'
    BY <2>1, <2>3 DEF Inv, LackInv
  <2> QED BY <2>2, <2>4 DEF Inv
<1> QED BY <1>1, <1>2, <1>3, <1>4, PassesKeep DEF AccessNext

(* Whoever is served had, at some moment since it came, each thing its     *)
(* route asks for: a key, client or token that was good, the licence where *)
(* the route is of a module that is held against one, and for a list the   *)
(* entity among those its user may see.                                    *)
THEOREM AdmittedWereEntitled == AccessSpec => []AdmittedIsEntitled
<1>1. AccessInit => Inv
  BY InitAccess DEF Inv
<1>2. Inv /\ [AccessNext]_accessVars => Inv'
  BY NextKeeps
<1>3. Inv => AdmittedIsEntitled
  BY DEF Inv, LackInv, AdmittedIsEntitled
<1> QED BY <1>1, <1>2, <1>3, PTL DEF AccessSpec

-----------------------------------------------------------------------------
(* The default.  An update that has read the memberships takes or clears   *)
(* what it saw, so that when it is over its own default and those it did   *)
(* not see are all there is; and those it did not see were given by        *)
(* updates that read before it was over.                                   *)

LEMMA UnseenFinite ==
  \A V : IsFiniteSet(Unseen(V)) /\ Cardinality(Unseen(V)) \in Nat
<1> TAKE V
<1>1. Unseen(V) \subseteq Entities
  BY DEF Unseen, Defaults
<1>2. IsFiniteSet(Unseen(V))
  BY <1>1, AccessAssumption, FS_Subset
<1> QED BY <1>2, FS_CardinalityType

LEMMA SlotsFinite ==
  \A V \in SUBSET Slots : IsFiniteSet(V) /\ Cardinality(V) \in Nat
BY AccessAssumption, FS_Subset, FS_CardinalityType

(* Nobody new holds the row or has read, and no default is new.            *)
LEMMA DefaultsStay ==
  ASSUME AccessTypes, DefaultInv, Defaults' \subseteq Defaults, most' = most,
         \A t \in Slots : Locks(t)' => Locks(t),
         \A t \in Slots :
           Reading(t)' => Reading(t) /\ slot'[t].wiped = slot[t].wiped
  PROVE  DefaultInv'
<1>1. ASSUME NEW V \in SUBSET Readers'
      PROVE  Cardinality(Unseen(V)') + Cardinality(V) <= most'
  <2>1. V \in SUBSET Readers /\ V \in SUBSET Slots
    BY DEF Readers
  <2>2. Unseen(V)' \subseteq Unseen(V)
    BY <2>1 DEF Unseen, Readers
  <2>3. /\ Cardinality(Unseen(V)') <= Cardinality(Unseen(V))
        /\ Cardinality(Unseen(V)') \in Nat /\ Cardinality(Unseen(V)) \in Nat
    BY <2>2, UnseenFinite, FS_Subset, FS_CardinalityType
  <2>4. Cardinality(Unseen(V)) + Cardinality(V) <= most
    BY <2>1 DEF DefaultInv
  <2> QED BY <2>1, <2>3, <2>4, SlotsFinite DEF AccessTypes
<1> QED BY <1>1 DEF DefaultInv

(* One more update reads the memberships, and so sees every default; while *)
(* one holds the row, Together counts those that have read.                *)
LEMMA DefaultsRead ==
  ASSUME AccessTypes, DefaultInv, NEW s \in Slots, Defaults' = Defaults, Counted,
         \A t, o \in Slots : Locks(t)' /\ Locks(o)' => t = o,
         Defaults \subseteq slot'[s].wiped,
         \A t \in Slots \ {s} :
           Reading(t)' => Reading(t) /\ slot'[t].wiped = slot[t].wiped
  PROVE  DefaultInv'
<1>1. most' \in Nat /\ most <= most' /\ Together' <= most'
  BY CountedType DEF AccessTypes
<1>2. Cardinality(Readers') <= Together'
  <2> DEFINE A == {t \in Slots : Reading(t)' /\ ~Locks(t)'}
             B == {t \in Slots : Reading(t)' /\ Locks(t)'}
  <2>1. Readers' = A \union B /\ A \intersect B = {}
    BY DEF Readers
  <2>2. A \in SUBSET Slots /\ B \in SUBSET Slots
    OBVIOUS
  <2>3. Cardinality(B)
          = IF \E t \in Slots : Reading(t)' /\ Locks(t)' THEN 1 ELSE 0
    <3>1. CASE \E t \in Slots : Reading(t)' /\ Locks(t)'
      <4>1. PICK t \in Slots : Reading(t)' /\ Locks(t)'
        BY <3>1
      <4>2. B = {t}
        BY <4>1
      <4> QED BY <3>1, <4>2, FS_Singleton
    <3>2. CASE ~\E t \in Slots : Reading(t)' /\ Locks(t)'
      <4>1. B = {}
        BY <3>2
      <4> QED BY <3>2, <4>1, FS_EmptySet
    <3> QED BY <3>1, <3>2
  <2>4. Together' = Cardinality(A) + Cardinality(B)
    BY <2>3 DEF Together
  <2> HIDE DEF A, B
  <2>5. /\ IsFiniteSet(A) /\ IsFiniteSet(B)
        /\ Cardinality(A) \in Nat /\ Cardinality(B) \in Nat
    BY <2>2, SlotsFinite
  <2>6. Cardinality(Readers')
          = Cardinality(A) + Cardinality(B) - Cardinality(A \intersect B)
    BY <2>1, <2>5, FS_Union
  <2>7. Cardinality(A \intersect B) = 0
    BY <2>1, FS_EmptySet
  <2> QED BY <2>4, <2>5, <2>6, <2>7
<1>3. Readers' \in SUBSET Slots
  BY DEF Readers
<1>4. ASSUME NEW V \in SUBSET Readers'
      PROVE  Cardinality(Unseen(V)') + Cardinality(V) <= most'
  <2>1. V \in SUBSET Slots
    BY <1>3
  <2>2. CASE s \in V
    <3>1. Unseen(V)' = {}
      BY <2>2 DEF Unseen
    <3>2. Cardinality(V) <= Cardinality(Readers')
      BY <1>3, SlotsFinite, FS_Subset
    <3>3. /\ Cardinality(V) \in Nat /\ Cardinality(Readers') \in Nat
          /\ Together' \in Int
      <4>1. {t \in Slots : Reading(t)' /\ ~Locks(t)'} \in SUBSET Slots
        OBVIOUS
      <4>2. Cardinality({t \in Slots : Reading(t)' /\ ~Locks(t)'}) \in Nat
        BY <4>1, SlotsFinite
      <4> QED BY <1>3, <2>1, <4>2, SlotsFinite DEF Together
    <3> QED BY <1>1, <1>2, <3>1, <3>2, <3>3, FS_EmptySet
  <2>3. CASE s \notin V
    <3>1. V \in SUBSET Readers
      BY <2>3 DEF Readers
    <3>2. Unseen(V)' = Unseen(V)
      BY <2>3 DEF Unseen, Readers
    <3>3. Cardinality(Unseen(V)) + Cardinality(V) <= most
      BY <3>1 DEF DefaultInv
    <3> QED
      BY <1>1, <2>1, <3>2, <3>3, SlotsFinite, UnseenFinite DEF AccessTypes
  <2> QED BY <2>2, <2>3
<1> QED BY <1>4 DEF DefaultInv

(* An update is over: what it read is gone, and one default is added.      *)
LEMMA DefaultsWritten ==
  ASSUME AccessTypes, DefaultInv, NEW s \in Readers, NEW e,
         Defaults' \subseteq (Defaults \ slot[s].wiped) \union {e},
         most' = most,
         \A t \in Slots : Locks(t)' => Locks(t),
         ~Reading(s)',
         \A t \in Slots \ {s} :
           Reading(t)' =>
             /\ Reading(t)
             /\ slot[t].wiped \ slot[s].wiped \subseteq slot'[t].wiped
  PROVE  DefaultInv'
<1>1. ASSUME NEW V \in SUBSET Readers'
      PROVE  Cardinality(Unseen(V)') + Cardinality(V) <= most'
  <2> DEFINE W == V \union {s}
  <2>1. s \notin V /\ V \in SUBSET Slots /\ W \in SUBSET Readers
    BY DEF Readers
  <2>2. Cardinality(W) = Cardinality(V) + 1
    BY <2>1, SlotsFinite, FS_AddElement
  <2>3. Unseen(V)' \subseteq Unseen(W) \union {e}
    <3> SUFFICES ASSUME NEW d \in Unseen(V)', d # e PROVE d \in Unseen(W)
      OBVIOUS
    <3>1. /\ d \in Defaults \ slot[s].wiped
          /\ \A t \in V : d \notin slot'[t].wiped
      BY DEF Unseen
    <3>2. \A t \in V : d \notin slot[t].wiped
      BY <2>1, <3>1 DEF Readers
    <3> QED BY <3>1, <3>2 DEF Unseen
  <2>4. /\ IsFiniteSet(Unseen(W) \union {e})
        /\ Cardinality(Unseen(W) \union {e}) <= Cardinality(Unseen(W)) + 1
        /\ Cardinality(Unseen(W) \union {e}) \in Nat
    <3>1. PICK U : U = Unseen(W)
      OBVIOUS
    <3>2. IsFiniteSet(U) /\ Cardinality(U) \in Nat
      BY <3>1, UnseenFinite
    <3>3. /\ IsFiniteSet(U \union {e})
          /\ Cardinality(U \union {e})
               = IF e \in U THEN Cardinality(U) ELSE Cardinality(U) + 1
      BY <3>2, FS_AddElement
    <3>4. /\ Cardinality(U \union {e}) <= Cardinality(U) + 1
          /\ Cardinality(U \union {e}) \in Nat
      BY <3>2, <3>3
    <3> QED BY <3>1, <3>3, <3>4
  <2>5. /\ Cardinality(Unseen(V)') <= Cardinality(Unseen(W) \union {e})
        /\ Cardinality(Unseen(V)') \in Nat
    BY <2>3, <2>4, FS_Subset, FS_CardinalityType
  <2>6. Cardinality(Unseen(W)) + Cardinality(W) <= most
    BY <2>1 DEF DefaultInv
  <2>7. Cardinality(V) \in Nat /\ Cardinality(Unseen(W)) \in Nat
    BY <2>1, SlotsFinite, UnseenFinite
  <2> QED BY <2>2, <2>4, <2>5, <2>6, <2>7 DEF AccessTypes
<1> QED BY <1>1 DEF DefaultInv

LEMMA CommitDefaults ==
  ASSUME AccessTypes, DefaultInv, NEW s \in Slots, NEW rows, NEW gone, NEW e,
         Reading(s), Commits(s, rows, gone), gone \subseteq slot[s].wiped,
         \A d \in Entities :
           rows[d] = "default" => d = e \/ d \in Defaults \ slot[s].wiped,
         most' = most
  PROVE  DefaultInv'
<1>1. /\ slot'[s] = AtRest
      /\ \A t \in Slots \ {s} :
           /\ slot'[t].step = slot[t].step /\ slot'[t].role = slot[t].role
           /\ slot'[t].wiped = slot[t].wiped \ gone
  BY CommitSlots DEF Lighter
<1>2. Defaults' \subseteq (Defaults \ slot[s].wiped) \union {e}
  BY DEF Defaults, Commits
<1>3. \A t \in Slots : Locks(t)' => Locks(t)
  BY <1>1 DEF Locks, Updating, AtRest
<1>4. /\ ~Reading(s)'
      /\ \A t \in Slots \ {s} :
           Reading(t)' =>
             /\ Reading(t)
             /\ slot[t].wiped \ slot[s].wiped \subseteq slot'[t].wiped
  BY <1>1 DEF Reading, AtRest
<1>5. s \in Readers
  BY DEF Readers
<1> QED BY <1>2, <1>3, <1>4, <1>5, DefaultsWritten

(* A request that is no update goes on or ends.                            *)
LEMMA DefaultsAside ==
  ASSUME AccessTypes, DefaultInv, NEW s \in Slots, NEW q,
         slot' = [slot EXCEPT ![s] = q],
         q.step \notin {"wipe", "give", "set"},
         UNCHANGED <<member, most>>
  PROVE  DefaultInv'
<1>1. /\ slot'[s] = q
      /\ \A t \in Slots \ {s} : slot'[t] = slot[t]
  BY DEF AccessTypes
<1>2. Defaults' = Defaults
  BY DEF Defaults
<1>3. \A t \in Slots : Locks(t)' => Locks(t)
  BY <1>1 DEF Locks, Updating
<1>4. \A t \in Slots :
        Reading(t)' => Reading(t) /\ slot'[t].wiped = slot[t].wiped
  BY <1>1 DEF Reading
<1> QED BY <1>2, <1>3, <1>4, DefaultsStay

LEMMA DefaultsStep ==
  ASSUME AccessTypes, DefaultInv, NEW s \in Slots,
         NEW o \in {"limit", "licence", "scope"},
         slot' = [slot EXCEPT ![s].step = o]
           \/ \E r : slot' = [slot EXCEPT ![s].step = o, ![s].role = r],
         UNCHANGED <<member, most>>
  PROVE  DefaultInv'
<1>1. slot[s] \in Entry
  BY DEF AccessTypes
<1>2. CASE slot' = [slot EXCEPT ![s].step = o]
  <2>1. PICK q : q = [slot[s] EXCEPT !.step = o]
    OBVIOUS
  <2>2. q.step = o
    BY <1>1, <2>1 DEF Entry
  <2>3. slot' = [slot EXCEPT ![s] = q]
    BY <1>2, <2>1 DEF AccessTypes
  <2> QED BY <2>2, <2>3, DefaultsAside
<1>3. ASSUME NEW r, slot' = [slot EXCEPT ![s].step = o, ![s].role = r]
      PROVE  DefaultInv'
  <2>1. PICK q : q = [slot[s] EXCEPT !.step = o, !.role = r]
    OBVIOUS
  <2>2. q.step = o
    BY <1>1, <2>1 DEF Entry
  <2>3. slot' = [slot EXCEPT ![s] = q]
    BY <1>3, <2>1 DEF AccessTypes
  <2> QED BY <2>2, <2>3, DefaultsAside
<1> QED BY <1>2, <1>3

LEMMA DefaultsEnd ==
  ASSUME AccessTypes, DefaultInv, NEW s \in Slots, Ends(s),
         UNCHANGED <<member, most>>
  PROVE  DefaultInv'
BY DefaultsAside DEF Ends, AtRest

LEMMA DefaultsPass ==
  ASSUME AccessTypes, DefaultInv, NEW s \in Slots, Passes(s)
  PROVE  DefaultInv'
<1>1. UNCHANGED <<member, most>>
  BY DEF Passes, Arrive, Resolve, Limit, Licence, Scoped, grants
<1>2. ASSUME NEW who \in Bearers, NEW e \in Wanted, NEW asks \in SUBSET Asked,
             Arrive(s, who, e, asks)
      PROVE  DefaultInv'
  <2>1. PICK q : q = [AtRest EXCEPT
                        !.step = "resolve", !.who = who, !.wants = e,
                        !.asks = asks, !.lacks = Lacks(who, e, asks)]
    OBVIOUS
  <2>2. q.step = "resolve" /\ slot' = [slot EXCEPT ![s] = q]
    BY <1>2, <2>1 DEF Arrive, AtRest
  <2> QED BY <1>1, <2>2, DefaultsAside
<1>3. CASE Resolve(s)
  BY <1>1, <1>3, DefaultsEnd, DefaultsStep DEF Resolve
<1>4. CASE Limit(s)
  BY <1>1, <1>4, DefaultsEnd, DefaultsStep DEF Limit, Goes
<1>5. CASE Licence(s)
  BY <1>1, <1>5, DefaultsEnd, DefaultsStep DEF Licence, Goes
<1>6. CASE Scoped(s)
  BY <1>1, <1>6, DefaultsEnd DEF Scoped
<1> QED BY <1>2, <1>3, <1>4, <1>5, <1>6 DEF Passes

LEMMA DefaultsSupplied ==
  ASSUME AccessTypes, DefaultInv, NEW what, NEW entities,
         slot' = Supplied(what, entities), Defaults' = Defaults, most' = most
  PROVE  DefaultInv'
<1>1. Struck(slot', what, entities)
  BY SuppliedSlots
<1> QED BY <1>1, DefaultsStay DEF Struck, Locks, Updating, Reading

LEMMA DefaultsUpdate ==
  ASSUME AccessInv, DefaultInv, NEW s \in Slots,
         \/ \E r \in Roles : UpdateRole(s, r)
         \/ \E r \in Roles \union {Nothing} :
              \/ \E e \in Entities : SetDefaultEntity(s, r, e)
              \/ \E gift \in SUBSET Entities,
                    default \in Entities \union {Nothing} :
                   UpdateUser(s, r, gift, default)
         \/ WipeMembers(s)  \/ GiveMembers(s)  \/ MarkDefault(s)
  PROVE  DefaultInv'
<1>0. AccessTypes /\ slot[s] \in Entry
  BY DEF AccessInv, AccessTypes
<1>1. ASSUME NEW r \in Roles, UpdateRole(s, r) PROVE DefaultInv'
  BY <1>0, <1>1, DefaultsSupplied DEF UpdateRole, Defaults
<1>2. ASSUME NEW r \in Roles \union {Nothing}, NEW e \in Entities,
             SetDefaultEntity(s, r, e)
      PROVE  DefaultInv'
  <2>1. PICK q : q = [AtRest EXCEPT !.step = "set", !.role = r, !.default = e,
                                    !.wiped = Members]
    OBVIOUS
  <2>2. q.step = "set" /\ q.role = r /\ q.wiped = Members
    BY <2>1 DEF AtRest
  <2>3. slot'[s] = q /\ \A t \in Slots \ {s} : slot'[t] = slot[t]
    BY <1>0, <1>2, <2>1 DEF SetDefaultEntity, AccessTypes
  <2>4. Defaults' = Defaults /\ Defaults \subseteq slot'[s].wiped
    BY <1>2, <2>2, <2>3 DEF SetDefaultEntity, Defaults, Members
  <2>5. \A t, o \in Slots : Locks(t)' /\ Locks(o)' => t = o
    BY <1>2, <2>2, <2>3
    DEF SetDefaultEntity, RowFree, DefaultInv, Locks, Updating
  <2>6. \A t \in Slots \ {s} :
          Reading(t)' => Reading(t) /\ slot'[t].wiped = slot[t].wiped
    BY <2>3 DEF Reading
  <2> QED BY <1>0, <1>2, <2>4, <2>5, <2>6, DefaultsRead DEF SetDefaultEntity
<1>3. ASSUME NEW r \in Roles \union {Nothing}, NEW gift \in SUBSET Entities,
             NEW default \in Entities \union {Nothing},
             UpdateUser(s, r, gift, default)
      PROVE  DefaultInv'
  <2>1. slot'[s].step = "wipe" /\ slot'[s].role = r
    BY <1>0, <1>3 DEF UpdateUser, Update, AtRest, AccessTypes
  <2>2. \A t \in Slots \ {s} : slot'[t] = slot[t]
    BY <1>0, <1>3 DEF UpdateUser, Update, AccessTypes
  <2>3. UNCHANGED <<member, most>> /\ Defaults' = Defaults
    BY <1>3 DEF UpdateUser, Update, grants, Defaults
  <2>4. \A t, o \in Slots : Locks(t)' /\ Locks(o)' => t = o
    BY <1>3, <2>1, <2>2 DEF UpdateUser, RowFree, DefaultInv, Locks, Updating
  <2>5. Readers' \subseteq Readers /\ s \notin Readers'
    BY <2>1, <2>2 DEF Readers, Reading
  <2>6. \A V \in SUBSET Readers' : Unseen(V)' = Unseen(V)
    BY <2>2, <2>3, <2>5 DEF Unseen, Readers
  <2> QED BY <2>3, <2>4, <2>5, <2>6 DEF DefaultInv
<1>4. CASE WipeMembers(s)
  <2>1. PICK q : q = [slot[s] EXCEPT !.step = "give", !.wiped = Members]
    OBVIOUS
  <2>2. q.step = "give" /\ q.role = slot[s].role /\ q.wiped = Members
    BY <1>0, <2>1 DEF Entry
  <2>3. slot'[s] = q /\ \A t \in Slots \ {s} : slot'[t] = slot[t]
    BY <1>0, <1>4, <2>1 DEF WipeMembers, AccessTypes
  <2>4. Defaults' = Defaults /\ Defaults \subseteq slot'[s].wiped
    BY <1>4, <2>2, <2>3 DEF WipeMembers, Defaults, Members
  <2>5. \A t \in Slots : Locks(t)' => Locks(t)
    BY <1>4, <2>2, <2>3 DEF WipeMembers, At, Locks, Updating
  <2>6. \A t, o \in Slots : Locks(t)' /\ Locks(o)' => t = o
    BY <2>5 DEF DefaultInv
  <2>7. \A t \in Slots \ {s} :
          Reading(t)' => Reading(t) /\ slot'[t].wiped = slot[t].wiped
    BY <2>3 DEF Reading
  <2> QED BY <1>0, <1>4, <2>4, <2>6, <2>7, DefaultsRead DEF WipeMembers
<1>5. CASE GiveMembers(s)
  <2> PICK rows : rows = [e \in Entities |->
                           IF e = slot[s].default THEN "default"
                           ELSE IF e \in slot[s].gift THEN "plain"
                           ELSE IF e \in slot[s].wiped THEN "no" ELSE member[e]]
    OBVIOUS
  <2>1. Reading(s) /\ most' = most
    BY <1>5 DEF GiveMembers, At, Reading
  <2>2. CASE Ends(s) /\ UNCHANGED <<member, role>>
    BY <1>0, <2>1, <2>2, DefaultsEnd
  <2>3. CASE Commits(s, rows, slot[s].wiped)
    <3>1. \A d \in Entities :
            rows[d] = "default" =>
              d = slot[s].default \/ d \in Defaults \ slot[s].wiped
      BY DEF Defaults
    <3> QED BY <1>0, <2>1, <2>3, <3>1, CommitDefaults
  <2> QED BY <1>5, <2>2, <2>3 DEF GiveMembers
<1>6. CASE MarkDefault(s)
  <2> PICK rows : rows = [e \in Entities |->
                           IF e = slot[s].default THEN "default"
                           ELSE IF e \in slot[s].wiped THEN "plain"
                           ELSE member[e]]
    OBVIOUS
  <2>1. Reading(s) /\ most' = most
    BY <1>6 DEF MarkDefault, At, Reading
  <2>2. CASE Ends(s) /\ UNCHANGED <<member, role>>
    BY <1>0, <2>1, <2>2, DefaultsEnd
  <2>3. CASE Commits(s, rows, {})
    <3>1. \A d \in Entities :
            rows[d] = "default" =>
              d = slot[s].default \/ d \in Defaults \ slot[s].wiped
      BY DEF Defaults
    <3> QED BY <1>0, <2>1, <2>3, <3>1, CommitDefaults
  <2> QED BY <1>6, <2>2, <2>3 DEF MarkDefault
<1> QED BY <1>1, <1>2, <1>3, <1>4, <1>5, <1>6

LEMMA DefaultsKeep ==
  ASSUME AccessInv, DefaultInv, [AccessNext]_accessVars
  PROVE  DefaultInv'
<1>0. AccessTypes
  BY DEF AccessInv
<1>1. CASE UNCHANGED <<slot, member, most>>
  BY <1>0, <1>1, DefaultsStay DEF Defaults, Locks, Updating, Reading
<1>2. ASSUME NEW s \in Slots, Passes(s) PROVE DefaultInv'
  BY <1>0, <1>2, DefaultsPass
<1>3. ASSUME NEW s \in Slots, Grants(s) PROVE DefaultInv'
  <2>1. ASSUME NEW k \in Keys, RevokeKey(s, k) PROVE DefaultInv'
    BY <1>1, <2>1 DEF RevokeKey
  <2>2. ASSUME NEW c \in Clients, NEW o \in {"purge", "issue"},
               slot' = [slot EXCEPT ![s] =
                          [AtRest EXCEPT !.step = o, !.who = c]],
               UNCHANGED <<member, most>>
        PROVE  DefaultInv'
    <3>1. PICK q : q = [AtRest EXCEPT !.step = o, !.who = c]
      OBVIOUS
    <3>2. q.step = o
      BY <3>1 DEF AtRest
    <3> QED BY <1>0, <2>2, <3>1, <3>2, DefaultsAside
  <2>3. ASSUME NEW c \in Clients, RevokeClient(s, c) \/ IssueToken(s, c)
        PROVE  DefaultInv'
    BY <2>2, <2>3 DEF RevokeClient, IssueToken, grants
  <2>4. CASE PurgeTokens(s) \/ CreateToken(s)
    BY <1>0, <2>4, DefaultsEnd DEF PurgeTokens, CreateToken
  <2>5. ASSUME NEW enabled \in BOOLEAN, SetModuleEnabled(s, enabled)
        PROVE  DefaultInv'
    <3>1. UNCHANGED <<member, most>> /\ Defaults' = Defaults
      BY <2>5 DEF SetModuleEnabled, Defaults
    <3> QED
      BY <1>0, <1>1, <2>5, <3>1, DefaultsSupplied DEF SetModuleEnabled
  <2>6. ASSUME NEW e \in Entities, CreateEntity(s, e) PROVE DefaultInv'
    <3>1. Defaults' = Defaults /\ most' = most
      BY <1>0, <2>6 DEF CreateEntity, Defaults, AccessInv, AccessTypes, Members
    <3> QED BY <1>0, <2>6, <3>1, DefaultsSupplied DEF CreateEntity
  <2> QED
    BY <1>3, <2>1, <2>3, <2>4, <2>5, <2>6, DefaultsUpdate DEF Grants, Roles
<1>4. CASE Restart
  <2>1. /\ \A t \in Slots : ~Locks(t)' /\ ~Reading(t)'
        /\ Defaults' = Defaults /\ most' = most
    BY <1>4 DEF Restart, grants, Locks, Updating, Reading, AtRest, Defaults
  <2> QED BY <1>0, <2>1, DefaultsStay
<1>5. CASE Tick
  BY <1>1, <1>5 DEF Tick, grants
<1>6. CASE UNCHANGED accessVars
  BY <1>1, <1>6 DEF accessVars
<1> QED BY <1>2, <1>3, <1>4, <1>5, <1>6 DEF AccessNext

(* A user has one default where no update of memberships alone has met     *)
(* another, and never more than such updates there were at once: an update *)
(* takes or clears each default it saw, and a default it did not see was   *)
(* given by one under way at the same time, which the row of the user      *)
(* keeps out where both write it.                                          *)
THEOREM DefaultsPerOverlap == AccessSpec => []DefaultPerOverlap
<1>1. AccessInit => Inv /\ DefaultInv
  BY InitAccess DEF Inv
<1>2. Inv /\ DefaultInv /\ [AccessNext]_accessVars => Inv' /\ DefaultInv'
  BY NextKeeps, DefaultsKeep DEF Inv
<1>3. Inv /\ DefaultInv => DefaultPerOverlap
  <2> SUFFICES ASSUME Inv, DefaultInv PROVE Cardinality(Defaults) <= most
    BY DEF DefaultPerOverlap, Defaults
  <2>1. Unseen({}) = Defaults /\ {} \in SUBSET Readers
    BY DEF Unseen
  <2>2. Cardinality(Unseen({})) + Cardinality({}) <= most
    BY <2>1 DEF DefaultInv
  <2> QED BY <2>1, <2>2, FS_EmptySet, UnseenFinite
<1> QED BY <1>1, <1>2, <1>3, PTL DEF AccessSpec

-----------------------------------------------------------------------------
(* The limit.  A bucket counts from its first request until it runs out,   *)
(* and any stretch of time as long as a window reaches into two windows of *)
(* the bucket: the present one and the one before it, which no more than   *)
(* PerWindow passed each.  What passed earlier is out of every stretch     *)
(* that is still to be judged, and those that are over do not change.      *)

Ticks == 0..LastTick
Span(from) == {t \in Ticks : from <= t /\ t < from + Window}
(* The window that ends at r, and those that may have been before it.      *)
Current(r) == {t \in Ticks : t < r /\ r <= t + Window}
Previous(r) ==
  {t \in Ticks : t + Window < r /\ r <= t + Window + Window}

(* f is what was let through at each tick, c and r the count and the       *)
(* resetAt of the bucket, n the time.                                      *)
Metered(f, c, r, n) ==
  /\ f \in [Ticks -> Nat] /\ c \in Nat /\ r \in Nat
  /\ r <= n + Window
  /\ \A t \in Ticks : r <= t => f[t] = 0
  /\ Total(f, Current(r)) <= c
  /\ Total(f, Current(r)) <= PerWindow
  /\ Total(f, Previous(r)) <= PerWindow
  /\ \A from \in Ticks : Total(f, Span(from)) <= 2 * PerWindow

LimitInv ==
  /\ now \in Ticks
  /\ DOMAIN bucket = Payers /\ DOMAIN passed = Payers
  /\ \A p \in Payers :
       /\ DOMAIN bucket[p] = {"count", "resetAt"}
       /\ Metered(passed[p], bucket[p].count, bucket[p].resetAt, now)

LEMMA TicksFinite ==
  /\ Ticks \subseteq Nat
  /\ \A S \in SUBSET Ticks : IsFiniteSet(S)
  /\ \A r : Current(r) \in SUBSET Ticks /\ Previous(r) \in SUBSET Ticks
  /\ \A from : Span(from) \in SUBSET Ticks
<1>1. IsFiniteSet(Ticks) /\ Ticks \subseteq Nat
  <2>1. 0 \in Int /\ LastTick \in Int
    BY AccessAssumption
  <2>2. IsFiniteSet(0..LastTick)
    BY <2>1, FS_Interval
  <2> QED BY <2>2 DEF Ticks
<1>2. \A S \in SUBSET Ticks : IsFiniteSet(S)
  BY <1>1, FS_Subset
<1>3. \A r : Current(r) \in SUBSET Ticks /\ Previous(r) \in SUBSET Ticks
  BY DEF Current, Previous
<1>4. \A from : Span(from) \in SUBSET Ticks
  BY DEF Span
<1> QED BY <1>1, <1>2, <1>3, <1>4

LEMMA TicksTotal ==
  ASSUME NEW f \in [Ticks -> Nat], NEW S \in SUBSET Ticks
  PROVE  Total(f, S) \in Nat
BY TicksFinite, TotalType

LEMMA TicksCovered ==
  ASSUME NEW f \in [Ticks -> Nat], NEW S \in SUBSET Ticks,
         NEW A \in SUBSET Ticks, NEW B \in SUBSET Ticks,
         \A t \in S : t \in A \union B \/ f[t] = 0
  PROVE  Total(f, S) <= Total(f, A) + Total(f, B)
<1>1. \A t \in S \union A \union B : f[t] \in Nat
  OBVIOUS
<1>2. IsFiniteSet(S) /\ IsFiniteSet(A) /\ IsFiniteSet(B)
  BY TicksFinite
<1> QED BY <1>1, <1>2, TotalCovered

LEMMA TicksWithin ==
  ASSUME NEW f \in [Ticks -> Nat], NEW S \in SUBSET Ticks,
         NEW A \in SUBSET Ticks, \A t \in S : t \in A \/ f[t] = 0
  PROVE  Total(f, S) <= Total(f, A)
<1>1. Total(f, S) <= Total(f, A) + Total(f, {})
  BY TicksCovered
<1> QED BY <1>1, TotalOfNone, TicksTotal

LEMMA NothingPassed ==
  ASSUME NEW f \in [Ticks -> Nat], NEW S \in SUBSET Ticks,
         \A t \in S : f[t] = 0
  PROVE  Total(f, S) = 0
<1>1. Total(f, S) <= Total(f, {})
  BY TicksWithin
<1> QED BY <1>1, TotalOfNone, TicksTotal

(* Nothing was let through: the server was started.                        *)
LEMMA MeteredFresh ==
  ASSUME NEW c \in Nat, NEW r \in Nat, NEW n \in Ticks, r <= n + Window
  PROVE  Metered([t \in Ticks |-> 0], c, r, n)
<1> DEFINE f == [t \in Ticks |-> 0]
<1>1. f \in [Ticks -> Nat] /\ \A t \in Ticks : f[t] = 0
  OBVIOUS
<1> HIDE DEF f
<1>2. \A S \in SUBSET Ticks : Total(f, S) = 0
  BY <1>1, NothingPassed
<1>3. 0 <= c /\ 0 <= PerWindow /\ 0 <= 2 * PerWindow
  BY AccessAssumption
<1>4. /\ Total(f, Current(r)) = 0 /\ Total(f, Previous(r)) = 0
      /\ \A from : Total(f, Span(from)) = 0
  BY <1>2, TicksFinite
<1>5. Metered(f, c, r, n)
  BY <1>1, <1>3, <1>4 DEF Metered
<1> QED BY <1>5 DEF f

(* A window that is over becomes the one before.                           *)
LEMMA MeteredRefilled ==
  ASSUME NEW f, NEW c, NEW r, NEW n \in Ticks, Metered(f, c, r, n), r <= n
  PROVE  Metered(f, 0, n + Window, n)
<1> USE TicksFinite
<1>1. /\ f \in [Ticks -> Nat] /\ r \in Nat /\ n \in Nat
      /\ Window \in Nat /\ PerWindow \in Nat
  BY AccessAssumption DEF Metered
<1>2. \A t \in Current(n + Window) : f[t] = 0
  BY <1>1 DEF Metered, Current
<1>3. Total(f, Current(n + Window)) = 0
  BY <1>1, <1>2, NothingPassed
<1>4. \A t \in Previous(n + Window) : t \in Current(r) \/ f[t] = 0
  BY <1>1 DEF Metered, Previous, Current
<1>5. Total(f, Previous(n + Window)) <= Total(f, Current(r))
  BY <1>1, <1>4, TicksWithin
<1>6. /\ Total(f, Current(r)) \in Nat
      /\ Total(f, Previous(n + Window)) \in Nat
  BY <1>1, TicksTotal
<1>7. Total(f, Previous(n + Window)) <= PerWindow
  BY <1>1, <1>5, <1>6 DEF Metered
<1>8. \A t \in Ticks : n + Window <= t => f[t] = 0
  BY <1>1 DEF Metered
<1> QED BY <1>1, <1>3, <1>7, <1>8 DEF Metered

(* One more is let through.                                                *)
LEMMA MeteredPassed ==
  ASSUME NEW f, NEW c, NEW r, NEW n \in Ticks, Metered(f, c, r, n),
         n < r, c < PerWindow
  PROVE  Metered([f EXCEPT ![n] = @ + 1], c + 1, r, n)
<1> USE TicksFinite
<1> DEFINE g == [f EXCEPT ![n] = @ + 1]
<1>1. /\ f \in [Ticks -> Nat] /\ c \in Nat /\ r \in Nat /\ n \in Nat
      /\ Window \in Nat /\ PerWindow \in Nat
  BY AccessAssumption DEF Metered
<1>2. g \in [Ticks -> Nat]
  BY <1>1
<1>3. g[n] = f[n] + 1 /\ \A t \in Ticks \ {n} : g[t] = f[t]
  BY <1>1
<1> HIDE DEF g
<1>4. ASSUME NEW S \in SUBSET Ticks, n \in S
      PROVE  Total(g, S) = Total(f, S) + 1
  <2>1. Numbers(f, S) /\ Numbers(g, S) /\ Agree(f, g, S \ {n})
    BY <1>1, <1>2, <1>3 DEF Numbers, Agree
  <2>2. Total(g, S) = Total(f, S) - f[n] + g[n]
    BY <1>4, <2>1, TotalChanged
  <2>3. Total(f, S) \in Nat /\ f[n] \in Nat
    BY <1>1, TicksTotal
  <2> QED BY <1>3, <2>2, <2>3
<1>5. ASSUME NEW S \in SUBSET Ticks, n \notin S
      PROVE  Total(g, S) = Total(f, S)
  <2>1. Agree(g, f, S)
    BY <1>3, <1>5 DEF Agree
  <2>2. IsFiniteSet(S)
    OBVIOUS
  <2> QED BY <2>1, <2>2, TotalSame
<1>6. n \in Current(r) /\ n \notin Previous(r)
  <2>1. r <= n + Window /\ n \in Ticks
    BY DEF Metered
  <2>2. ~(n + Window < r)
    BY <1>1, <2>1
  <2> QED BY <2>1, <2>2 DEF Current, Previous
<1>7. /\ Total(g, Current(r)) = Total(f, Current(r)) + 1
      /\ Total(g, Previous(r)) = Total(f, Previous(r))
      /\ Total(f, Current(r)) \in Nat /\ Total(f, Previous(r)) \in Nat
  BY <1>1, <1>4, <1>5, <1>6, TicksTotal
<1>8. /\ Total(g, Current(r)) <= c + 1
      /\ Total(g, Current(r)) <= PerWindow
      /\ Total(g, Previous(r)) <= PerWindow
  BY <1>1, <1>7 DEF Metered
<1>9. ASSUME NEW from \in Ticks PROVE Total(g, Span(from)) <= 2 * PerWindow
  <2>1. CASE n \in Span(from)
    <3>1. \A t \in Span(from) : t \in Current(r) \union Previous(r) \/ g[t] = 0
      <4> TAKE t \in Span(from)
      <4>1. /\ t \in Ticks /\ t \in Nat /\ from \in Nat
            /\ from <= t /\ n < from + Window
        BY <2>1 DEF Span
      <4>2. r <= n + Window /\ (r <= t => f[t] = 0)
        BY <4>1 DEF Metered
      <4>3. CASE t < r
        <5>1. r <= t + Window + Window
          BY <1>1, <4>1, <4>2
        <5> QED BY <1>1, <4>1, <4>3, <5>1 DEF Current, Previous
      <4>4. CASE r <= t
        BY <1>1, <1>3, <4>1, <4>2, <4>4
      <4> QED BY <1>1, <4>1, <4>3, <4>4
    <3>2. Total(g, Span(from)) <= Total(g, Current(r)) + Total(g, Previous(r))
      BY <1>2, <3>1, TicksCovered
    <3>3. /\ Total(g, Span(from)) \in Nat
          /\ Total(g, Current(r)) \in Nat /\ Total(g, Previous(r)) \in Nat
      BY <1>2, TicksTotal
    <3> QED BY <1>1, <1>8, <3>2, <3>3
  <2>2. CASE n \notin Span(from)
    BY <1>5, <2>2 DEF Metered
  <2> QED BY <2>1, <2>2
<1>10. \A t \in Ticks : r <= t => g[t] = 0
  BY <1>1, <1>3 DEF Metered
<1>11. c + 1 \in Nat /\ r <= n + Window
  BY <1>1 DEF Metered
<1> QED BY <1>1, <1>2, <1>8, <1>9, <1>10, <1>11 DEF Metered, g

LEMMA InitLimit == AccessInit => LimitInv
<1> SUFFICES ASSUME AccessInit PROVE LimitInv
  OBVIOUS
<1>1. PICK b \in {Fresh} \union [count : 1..PerWindow, resetAt : 1..Window] :
        bucket = [p \in Payers |-> b]
  BY DEF AccessInit
<1>2. /\ DOMAIN b = {"count", "resetAt"} /\ b.count \in Nat /\ b.resetAt \in Nat
      /\ b.resetAt <= 0 + Window
  BY <1>1, AccessAssumption DEF Fresh
<1>3. now = 0 /\ 0 \in Ticks
  BY AccessAssumption DEF AccessInit, Ticks
<1>4. passed = [p \in Payers |-> [t \in Ticks |-> 0]]
  BY DEF AccessInit, Ticks
<1>5. Metered([t \in Ticks |-> 0], b.count, b.resetAt, 0)
  BY <1>2, <1>3, MeteredFresh
<1> QED BY <1>1, <1>2, <1>3, <1>4, <1>5 DEF LimitInv

LEMMA LimitMeters ==
  ASSUME LimitInv, NEW s \in Slots, Limit(s)
  PROVE  LimitInv'
<1>1. PICK p : p = Payer(slot[s].who)
  OBVIOUS
<1>2. p \in Payers
  BY <1>1 DEF Payer, Payers
<1>3. PICK b : b = Refilled(bucket[p])
  OBVIOUS
<1>4. now \in Ticks /\ now \in Nat /\ Window \in Nat /\ PerWindow \in Nat \ {0}
  BY TicksFinite, AccessAssumption DEF LimitInv
<1>5. /\ DOMAIN b = {"count", "resetAt"}
      /\ Metered(passed[p], b.count, b.resetAt, now)
      /\ now < b.resetAt
  <2>1. /\ DOMAIN bucket[p] = {"count", "resetAt"}
        /\ Metered(passed[p], bucket[p].count, bucket[p].resetAt, now)
        /\ bucket[p].resetAt \in Nat
    BY <1>2 DEF LimitInv, Metered
  <2>2. CASE bucket[p].resetAt <= now
    <3>1. b = [count |-> 0, resetAt |-> now + Window]
      BY <1>3, <2>2 DEF Refilled
    <3>2. Metered(passed[p], 0, now + Window, now)
      BY <1>4, <2>1, <2>2, MeteredRefilled
    <3>3. now < now + Window
      BY <1>4, AccessAssumption
    <3> QED BY <3>1, <3>2, <3>3
  <2>3. CASE ~(bucket[p].resetAt <= now)
    BY <1>3, <1>4, <2>1, <2>3 DEF Refilled
  <2> QED BY <2>2, <2>3
<1>6. /\ bucket' = [bucket EXCEPT ![p] = [b EXCEPT !.count = @ + 1]]
      /\ now' = now
      /\ b.count >= PerWindow => passed' = passed
      /\ ~(b.count >= PerWindow) => passed' = [passed EXCEPT ![p][now] = @ + 1]
  <2> USE DEF Limit
  <2>1. bucket' = [bucket EXCEPT ![p] = [b EXCEPT !.count = @ + 1]] /\ now' = now
    BY <1>1, <1>3
  <2>2. CASE Used(b)
    BY <1>1, <1>3, <2>1, <2>2 DEF Used
  <2>3. CASE ~Used(b)
    BY <1>1, <1>3, <2>1, <2>3 DEF Used
  <2> QED BY <2>2, <2>3
<1>7. /\ DOMAIN bucket' = Payers /\ DOMAIN passed' = Payers
      /\ \A o \in Payers \ {p} : bucket'[o] = bucket[o] /\ passed'[o] = passed[o]
  BY <1>6 DEF LimitInv
<1>8. /\ DOMAIN bucket'[p] = {"count", "resetAt"}
      /\ bucket'[p].count = b.count + 1 /\ bucket'[p].resetAt = b.resetAt
  <2>1. bucket'[p] = [b EXCEPT !.count = @ + 1]
    BY <1>2, <1>6 DEF LimitInv
  <2>2. "count" \in DOMAIN b /\ "resetAt" \in DOMAIN b
    BY <1>5
  <2> QED BY <1>5, <2>1, <2>2
<1>9. Metered(passed'[p], b.count + 1, b.resetAt, now)
  <2>1. b.count \in Nat
    BY <1>5 DEF Metered
  <2>2. CASE b.count >= PerWindow
    <3>1. passed'[p] = passed[p]
      BY <1>6, <2>2
    <3>2. /\ Total(passed[p], Current(b.resetAt)) <= b.count
          /\ Total(passed[p], Current(b.resetAt)) \in Nat
      BY <1>5, TicksFinite, TicksTotal DEF Metered
    <3>3. /\ Total(passed[p], Current(b.resetAt)) <= b.count + 1
          /\ b.count + 1 \in Nat
      BY <2>1, <3>2
    <3> QED BY <1>5, <3>1, <3>3 DEF Metered
  <2>3. CASE ~(b.count >= PerWindow)
    <3>1. passed'[p] = [passed[p] EXCEPT ![now] = @ + 1]
      <4>1. passed' = [passed EXCEPT ![p][now] = @ + 1]
        BY <1>6, <2>3
      <4> QED BY <1>2, <4>1 DEF LimitInv
    <3>2. b.count < PerWindow
      BY <1>4, <2>1, <2>3
    <3>3. Metered([passed[p] EXCEPT ![now] = @ + 1], b.count + 1, b.resetAt, now)
      BY <1>4, <1>5, <3>2, MeteredPassed
    <3> QED BY <3>1, <3>3
  <2> QED BY <2>2, <2>3
<1> QED BY <1>4, <1>6, <1>7, <1>8, <1>9 DEF LimitInv

LEMMA NextLimit ==
  ASSUME LimitInv, [AccessNext]_accessVars
  PROVE  LimitInv'
<1>1. CASE UNCHANGED <<now, bucket, passed>>
  BY <1>1 DEF LimitInv
<1>2. ASSUME NEW s \in Slots, Limit(s) PROVE LimitInv'
  BY <1>2, LimitMeters
<1>3. CASE Restart
  <2>1. /\ now' = now /\ now \in Ticks
        /\ bucket' = [p \in Payers |-> Fresh]
        /\ passed' = [p \in Payers |-> [t \in Ticks |-> 0]]
    BY <1>3 DEF Restart, Ticks, LimitInv
  <2>2. 0 \in Nat /\ 0 <= now + Window
    BY <2>1, TicksFinite, AccessAssumption
  <2>3. Metered([t \in Ticks |-> 0], 0, 0, now)
    BY <2>1, <2>2, MeteredFresh
  <2> QED BY <2>1, <2>3 DEF LimitInv, Fresh
<1>4. CASE Tick
  <2>1. /\ now' = now + 1 /\ now < LastTick /\ UNCHANGED <<bucket, passed>>
    BY <1>4 DEF Tick, counts
  <2>2. now \in Nat /\ now' \in Ticks
    BY <2>1, AccessAssumption DEF LimitInv, Ticks
  <2>3. ASSUME NEW f, NEW c, NEW r, Metered(f, c, r, now)
        PROVE  Metered(f, c, r, now + 1)
    <3>1. r <= now + Window => r <= (now + 1) + Window
      BY <2>2, <2>3, AccessAssumption DEF Metered
    <3> QED BY <2>3, <3>1 DEF Metered
  <2> QED BY <2>1, <2>2, <2>3 DEF LimitInv
<1>5. ASSUME NEW s \in Slots, Passes(s) \/ Grants(s), ~Limit(s)
      PROVE  UNCHANGED <<now, bucket, passed>>
  BY <1>5
  DEF Passes, Grants, Arrive, Resolve, Licence, Scoped, RevokeKey, RevokeClient,
      IssueToken, PurgeTokens, CreateToken, SetModuleEnabled, CreateEntity,
      SetDefaultEntity, UpdateUser, Update, UpdateRole, WipeMembers,
      GiveMembers, MarkDefault, counts
<1> QED BY <1>1, <1>2, <1>3, <1>4, <1>5 DEF AccessNext, accessVars, counts

(* However the requests of a payer fall in time, no stretch of Window ticks *)
(* lets through more than two windows full, and a restart of the server    *)
(* forgets what it had counted together with what it had let through.      *)
THEOREM LimitsHold == AccessSpec => []LimitHolds
<1>1. LimitInv => LimitHolds
  <2> SUFFICES ASSUME LimitInv, NEW p \in Payers, NEW from \in 0..LastTick
               PROVE  Total(passed[p], {t \in 0..LastTick :
                                          from <= t /\ t < from + Window})
                        <= 2 * PerWindow
    BY DEF LimitHolds, Total, MapThenSumSet, MapThenFoldSet
  <2> QED BY DEF LimitInv, Metered, Span, Ticks
<1> QED BY <1>1, InitLimit, NextLimit, PTL DEF AccessSpec
=============================================================================
