----------------------------- MODULE AdminRoles -----------------------------
(***************************************************************************)
(* Users and roles: repositories/userRepository.ts, the user and role      *)
(* routes of routes/admin.ts behind middleware/requireAuth.ts and          *)
(* middleware/permissions.ts, and the role promotion requests with the job *)
(* that expires them.                                                      *)
(*                                                                         *)
(* The repositories are in memory: a handler, from requireAuth to its      *)
(* answer, is one macrotask and one action here.  `trail` is the last      *)
(* entry of the audit log (module AuditLog).  Only the fields of a user    *)
(* that these routes relate are kept: the role and the email.              *)
(***************************************************************************)
EXTENDS Integers, Sequences, FiniteSets

CONSTANTS UserIds, Admins0, \* the accounts, and those that start as admins
          Addresses, AddressOf,  \* the emails, and the one each starts with
          NoUser, NoId,
          RequestTtl,       \* config.rolePromotion.ttlMinutes in ticks
          MaxRequests       \* bound: requests created

Roles == {"user", "business_admin", "admin"}
StoredRoles == Roles \cup {""}   \* PATCH checks nothing, so a role may come to be empty

ASSUME AccountsAssumption ==
    /\ AddressOf \in [UserIds -> Addresses] /\ NoId \notin UserIds
    /\ NoUser \notin [role : StoredRoles, email : Addresses]
    /\ RequestTtl \in Nat

VARIABLES accounts, emailIndex, rolePromotionRequests, trail

arVars == <<accounts, emailIndex, rolePromotionRequests, trail>>

Permissions == {"admin:read:stats", "admin:manage:users", "integrations:own", "integrations:any"}
NoEntry == [action |-> "none", target |-> NoId, outcome |-> "none"]

(* ROLE_PERMISSIONS. *)
ROLE_PERMISSIONS ==
    [user |-> {"integrations:own"},
     business_admin |-> {"integrations:own", "integrations:any"},
     admin |-> Permissions]

ArInit ==
    /\ accounts = [u \in UserIds |->
          [role |-> IF u \in Admins0 THEN "admin" ELSE "user", email |-> AddressOf[u]]]
    /\ emailIndex = [a \in Addresses |->
          IF \E u \in UserIds : AddressOf[u] = a
          THEN CHOOSE u \in UserIds : AddressOf[u] = a ELSE NoId]
    /\ rolePromotionRequests = <<>>
    /\ trail = NoEntry

findUserById(u) == accounts[u]

(* requireAuth, then requirePermissions: the role is read again from the
   repository on every request, never from the token; for an account without
   one the x-user-role header of the request is believed. *)
ActsAs(user) == IF user.role = "" THEN Roles ELSE {user.role}

Permitted(actor, perm) ==
    /\ findUserById(actor) # NoUser
    /\ \E role \in ActsAs(findUserById(actor)) : perm \in ROLE_PERMISSIONS[role]

Audit(action, target, outcome) ==
    trail' = [action |-> action, target |-> target, outcome |-> outcome]

-----------------------------------------------------------------------------
(* userRepository. *)

(* saveUser: the map, and the index entry of the email. *)
saveUser(u, rec) ==
    /\ accounts' = [accounts EXCEPT ![u] = rec]
    /\ emailIndex' = [emailIndex EXCEPT ![rec.email] = u]

(* updateUser: the entry of an email that is given up goes first, whoever it
   points to. *)
updateUser(u, rec) ==
    /\ accounts' = [accounts EXCEPT ![u] = rec]
    /\ emailIndex' = LET old == accounts[u].email
                         freed == IF old = rec.email THEN emailIndex
                                  ELSE [emailIndex EXCEPT ![old] = NoId]
                     IN  [freed EXCEPT ![rec.email] = u]

(* deleteUser. *)
deleteUser(u) ==
    /\ accounts' = [accounts EXCEPT ![u] = NoUser]
    /\ emailIndex' = [emailIndex EXCEPT ![accounts[u].email] = NoId]

(* promoteUserToBusinessAdmin: what it finds. *)
promotionOutcome(u) ==
    CASE accounts[u] = NoUser -> "not_found"
      [] accounts[u] # NoUser /\ accounts[u].role = "business_admin" -> "noop"
      [] accounts[u] # NoUser /\ accounts[u].role = "user" -> "success"
      [] OTHER -> "conflict"

-----------------------------------------------------------------------------
(* The user routes. *)

(* PATCH /users/:id; the body is handed to updateUser as it is, so a change
   may set the role, the email or both. *)
PatchUser(actor, u, role, email) ==
    /\ Permitted(actor, "admin:manage:users")
    /\ \/ /\ accounts[u] = NoUser
          /\ Audit("UPDATE_USER", u, "not_found")
          /\ UNCHANGED <<accounts, emailIndex>>
       \/ /\ accounts[u] # NoUser
          /\ updateUser(u, [role |-> role, email |-> email])
          /\ Audit("UPDATE_USER", u, "success")
    /\ UNCHANGED rolePromotionRequests

(* POST /users/:id/role. *)
PromoteUser(actor, u, validInput) ==
    LET outcome == IF ~validInput THEN "invalid_input"
                   ELSE IF actor = u THEN "forbidden_self_promotion"
                   ELSE promotionOutcome(u)
    IN  /\ Permitted(actor, "admin:manage:users")
        /\ IF outcome = "success"
           THEN saveUser(u, [accounts[u] EXCEPT !.role = "business_admin"])
           ELSE UNCHANGED <<accounts, emailIndex>>
        /\ Audit("PROMOTE_USER_ROLE", u, outcome)
        /\ UNCHANGED rolePromotionRequests

(* DELETE /users/:id. *)
DeleteUser(actor, u) ==
    /\ Permitted(actor, "admin:manage:users")
    /\ \/ /\ accounts[u] = NoUser
          /\ Audit("DELETE_USER", u, "not_found")
          /\ UNCHANGED <<accounts, emailIndex>>
       \/ /\ accounts[u] # NoUser
          /\ deleteUser(u)
          /\ Audit("DELETE_USER", u, "success")
    /\ UNCHANGED rolePromotionRequests

-----------------------------------------------------------------------------
(* Role promotion requests, addressed by their position. *)
Requests == DOMAIN rolePromotionRequests
Pending(r) == rolePromotionRequests[r].status = "pending"

(* POST /role-requests: one pending request per target and role; an expired
   one that nobody marked still counts. *)
CreateRequest(actor, u, role) ==
    /\ Permitted(actor, "admin:manage:users")
    /\ accounts[u] # NoUser
    /\ ~\E r \in Requests : Pending(r) /\ rolePromotionRequests[r].target = u
                                       /\ rolePromotionRequests[r].role = role
    /\ Len(rolePromotionRequests) < MaxRequests
    /\ rolePromotionRequests' = Append(rolePromotionRequests,
          [target |-> u, role |-> role, by |-> actor, status |-> "pending", ttl |-> RequestTtl])
    /\ Audit("CREATE_ROLE_PROMOTION_REQUEST", u, "none")
    /\ UNCHANGED <<accounts, emailIndex>>

(* Mutant: the request is marked approved, the role change is not audited. *)
Approve_Silent(actor, r) ==
    LET req == rolePromotionRequests[r] IN
    /\ rolePromotionRequests' = [rolePromotionRequests EXCEPT ![r].status = "approved"]
    /\ updateUser(req.target, [accounts[req.target] EXCEPT !.role = req.role])
    /\ UNCHANGED trail

Approve(actor, r) ==
    LET req == rolePromotionRequests[r] IN
    /\ rolePromotionRequests' = [rolePromotionRequests EXCEPT ![r].status = "approved"]
    /\ updateUser(req.target, [accounts[req.target] EXCEPT !.role = req.role])
    /\ Audit("APPROVE_ROLE_PROMOTION_REQUEST", req.target, "success")

(* POST /role-requests/:id/approve: the order of the checks is the code's; a
   vanished target is refused without a record. *)
ApproveRequest(actor, r) ==
    LET req == rolePromotionRequests[r] IN
    /\ Permitted(actor, "admin:manage:users")
    /\ Pending(r)
    /\ \/ /\ req.ttl < 0
          /\ rolePromotionRequests' = [rolePromotionRequests EXCEPT ![r].status = "expired"]
          /\ UNCHANGED <<accounts, emailIndex, trail>>
       \/ /\ req.ttl >= 0 /\ req.by = actor
          /\ Audit("APPROVE_ROLE_PROMOTION_REQUEST", req.target, "forbidden_self_approval")
          /\ UNCHANGED <<accounts, emailIndex, rolePromotionRequests>>
       \/ /\ req.ttl >= 0 /\ req.by # actor /\ accounts[req.target] # NoUser
          /\ Approve(actor, r)

(* sweepExpiredRequests, the job. *)
sweepExpiredRequests ==
    /\ \E r \in Requests : Pending(r) /\ rolePromotionRequests[r].ttl < 0
    /\ rolePromotionRequests' = [r \in Requests |->
          IF Pending(r) /\ rolePromotionRequests[r].ttl < 0
          THEN [rolePromotionRequests[r] EXCEPT !.status = "expired"]
          ELSE rolePromotionRequests[r]]
    /\ UNCHANGED <<accounts, emailIndex, trail>>

ArTick ==
    /\ \E r \in Requests : rolePromotionRequests[r].ttl >= 0
    /\ rolePromotionRequests' = [r \in Requests |->
          [rolePromotionRequests[r] EXCEPT !.ttl = IF @ < 0 THEN @ ELSE @ - 1]]
    /\ UNCHANGED <<accounts, emailIndex, trail>>

ArNext ==
    \/ \E actor, u \in UserIds :
          \/ \E role \in StoredRoles, email \in Addresses : PatchUser(actor, u, role, email)
          \/ \E ok \in BOOLEAN : PromoteUser(actor, u, ok)
          \/ DeleteUser(actor, u)
          \/ \E role \in Roles : CreateRequest(actor, u, role)
    \/ \E actor \in UserIds, r \in Requests : ApproveRequest(actor, r)
    \/ sweepExpiredRequests \/ ArTick

ArSpec == ArInit /\ [][ArNext]_arVars

-----------------------------------------------------------------------------
(* A lookup by email never returns someone else's account: whatever admins
   patch, two users set to one email included, an index entry points to an
   existing user that has this email. *)
IndexSound ==
    \A a \in Addresses :
        emailIndex[a] # NoId => /\ accounts[emailIndex[a]] # NoUser
                                /\ accounts[emailIndex[a]].email = a

(* Nobody's role changes, and no account disappears, without an audit entry
   about that user saying so, on whichever of the four routes it happens. *)
RoleChangesAudited ==
    [][\A u \in UserIds :
          (accounts[u] # NoUser /\ (accounts'[u] = NoUser \/ accounts'[u].role # accounts[u].role))
          => /\ trail'.target = u /\ trail'.outcome = "success"
             /\ accounts'[u] = NoUser => trail'.action = "DELETE_USER"]_arVars

(* Administration of accounts holds: lookups by email find the right account,
   and every change of a role or removal of an account is in the audit log. *)
AdministrationHolds == []IndexSound /\ RoleChangesAudited
=============================================================================
