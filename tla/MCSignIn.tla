------------------------------ MODULE MCSignIn ------------------------------
(* Small instances of SignIn and Access.  They share no variable: a        *)
(* session that is open is all that Access knows of SignIn.  So each is    *)
(* checked with the other at rest.                                         *)
EXTENDS SignIn, Access, TLC

CONSTANTS u1, e1

VARIABLE site  \* which of them a behaviour is about

Unused(K, available) ==
  [k \in K |-> [user |-> None,
                state |-> IF available THEN "absent" ELSE "closed"]]

(* The ways to get a session meet in the row of the user and in nothing    *)
(* else, so each part starts with the tokens of one of them left.          *)
Part(row, invites, resets, logins) ==
  /\ user = [u \in Users |-> row]
  /\ chosen = [u \in Users |-> row.password]
  /\ invite = Unused(Invites, invites)
  /\ reset = Unused(Resets, resets)
  /\ login = [s \in Logins |-> IF logins THEN "absent" ELSE "gone"]

Member(password) ==
  [NewUser EXCEPT !.status = "active", !.password = password]

Unspent == [user |-> None, state |-> "closed"]
Resetting == \E t \in Resets : reset[t] # Unspent
Inviting == \E i \in Invites : invite[i] # Unspent

(* Requests on their way at once are of one kind of route, which asks for  *)
(* nothing once the clock has moved, and name an entity where it matters.  *)
OnItsWay == {"resolve", "limit", "licence", "scope"}
OneKind(s) ==
  /\ slot[s].wants # Nothing => "entity" \in slot[s].asks
  /\ At(s, "resolve") =>
       /\ now > 0 => slot[s].asks = {}
       /\ \A t \in Slots :
            slot[t].step \in OnItsWay => slot[t].asks = slot[s].asks

(* Where users are updated time stands still, nothing else is taken away   *)
(* and buckets were not in use before.                                     *)
Quiet ==
  /\ now = 0 /\ licensed /\ issued = {} /\ revoked = {}
  /\ \A p \in Payers : bucket[p] # Fresh => passed[p][now] > 0

(* Second factors are set up where they meet resets, and passwords         *)
(* mistaken in the other parts, once where there are invitations.  Time    *)
(* counts for tokens issued at the start and for buckets, and stands still *)
(* where the licence is withdrawn.  An update that writes the row of a     *)
(* user leaves him one entity or none.                                     *)
Scope ==
  /\ \A u \in Users :
       /\ Resetting => user[u].failures = 0
       /\ Inviting => user[u].failures <= 1
       /\ ~Resetting => ~user[u].secret
  /\ ~licensed => now = 0
  /\ \A token \in issued : token.until = Lifetime
  /\ \A s \in Slots :
       /\ Updating(s) => Quiet
       /\ slot[s].gift = Entities => ~Locks(s)
       /\ OneKind(s)

SignInParts ==
  /\ \/ Part(NewUser, TRUE, FALSE, FALSE)
     \/ Part(Member(2), FALSE, TRUE, FALSE) /\ site = "signin"
     \/ Part(Member(Passwords), FALSE, FALSE, TRUE) /\ site = "signin"
  /\ sessions = {} /\ challenges = {}
  /\ req = [r \in Requests |-> Idle]
  /\ tries = [u \in Users |-> 0]
  /\ floor = [u \in Users |-> 0]
  /\ opened = [k \in Invites \union Logins |-> 0]
  /\ proven = [u \in Users |-> FALSE]
  /\ overlapped = FALSE

(* The user is an administrator of one entity, or no administrator, where  *)
(* another one exists and the buckets may be in use.                       *)
AccessParts ==
  /\ AccessInit
  /\ member[e1] = "default"
  /\ \/ role = "admin" /\ created = {e1}
     \/ role = "user" /\ created = Entities
  /\ \A p \in Payers :
       bucket[p] # Fresh => role = "user" /\ bucket[p].resetAt = Window
  /\ site = "signin" => role = "admin" /\ \A p \in Payers : bucket[p] = Fresh

PartsInit == site \in {"signin", "access"} /\ SignInParts /\ AccessParts

PartsNext ==
  /\ \/ site = "signin" /\ Next /\ UNCHANGED accessVars
     \/ site = "access" /\ AccessNext /\ UNCHANGED vars
  /\ UNCHANGED site

PartsSpec == PartsInit /\ [][PartsNext]_<<vars, accessVars, site>>

Symmetric == Permutations(Requests) \union Permutations(Invites)
               \union Permutations(Resets) \union Permutations(Slots)
=============================================================================
