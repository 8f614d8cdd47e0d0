--------------------------- MODULE AccountAccess ---------------------------
(***************************************************************************)
(* Requests of logged-in accounts beside the requests that edit groups.    *)
(* JWTbaseMiddleware (contrib/auth/middleware.py) loads the account of the *)
(* token into the request; a view asks has_perm (contrib/auth/models.py)   *)
(* of that object later, and the backend reads the roles from the database *)
(* then.                                                                   *)
(***************************************************************************)
EXTENDS AuthGroups

CONSTANT
  Perm      \* the permission that the view asks for

VARIABLES
  account,   \* the accounts that exist: is_active and is_superuser
  web        \* the request that is served: its phase and user, and history:
             \* was the account active when it began

vars == <<db, req, want, account, web>>

NoRequest == [phase |-> "none"]
Anonymous == [id |-> "anonymous", superuser |-> FALSE]

-----------------------------------------------------------------------------
(* contrib/auth/models.py *)

\* UserManager.create_user and create_superuser; username is unique.
CreateAccount(a, superuser) ==
  /\ a \notin DOMAIN account
  /\ account' = [x \in DOMAIN account \cup {a} |->
                   IF x = a THEN [active |-> TRUE, superuser |-> superuser] ELSE account[x]]
  /\ UNCHANGED <<db, req, want, web>>

\* An administrator sets or clears is_active.
SetActive(a) ==
  /\ a \in DOMAIN account
  /\ account' = [account EXCEPT ![a].active = ~ @]
  /\ UNCHANGED <<db, req, want, web>>

\* A role applied to an account.  Bound: not to a superuser, whose roles
\* has_perm never reads.
ApplyRoleToAccount(a) ==
  /\ a \in DOMAIN account /\ ~ account[a].superuser
  /\ \E g \in DOMAIN db.names : ApplyRole(a, g)
  /\ UNCHANGED <<account, web>>

\* The permissions an account has through its roles.
RolePermissions(perms, a) == UNION {perms[r[2]] : r \in {x \in db.roles : x[1] = a}}

\* has_perm of the object in the request, with one backend: its flags were read
\* when it was loaded (an account that is not active is not loaded), its roles
\* are read now.
HasPerm(user) ==
  /\ user # Anonymous
  /\ \/ user.superuser
     \/ Perm \in RolePermissions([g \in DOMAIN db.auth |-> db.auth[g].perms], user.id)

-----------------------------------------------------------------------------
(* contrib/auth/middleware.py *)

\* Bug: the account is loaded by its id alone.
ProcessRequestAnyAccount(a) ==
  LET loaded == a \in DOMAIN account
  IN  /\ web = NoRequest
      /\ web' = [phase |-> "loaded",
                 user |-> IF loaded THEN [id |-> a, superuser |-> account[a].superuser]
                          ELSE Anonymous,
                 beganActive |-> a \in DOMAIN account /\ account[a].active]
      /\ UNCHANGED <<db, req, want, account>>

\* process_request, for the account of a valid token or with none: get_user of
\* the backend returns no account that is not active.
ProcessRequest(a) ==
  LET loaded == a \in DOMAIN account /\ account[a].active
  IN  /\ web = NoRequest
      /\ web' = [phase |-> "loaded",
                 user |-> IF loaded THEN [id |-> a, superuser |-> account[a].superuser]
                          ELSE Anonymous,
                 beganActive |-> a \in DOMAIN account /\ account[a].active]
      /\ UNCHANGED <<db, req, want, account>>

\* The view checks the permission and answers.
CheckPermission ==
  /\ web.phase = "loaded"
  /\ web' = [web EXCEPT !.phase = IF HasPerm(web.user) THEN "allowed" ELSE "denied"]
  /\ UNCHANGED <<db, req, want, account>>

Respond ==
  /\ web.phase \in {"allowed", "denied"}
  /\ web' = NoRequest
  /\ UNCHANGED <<db, req, want, account>>

-----------------------------------------------------------------------------
\* Bound: more than one form of administrators is pending only beside active
\* accounts that are no superusers, have one role and send no request meanwhile.
Bound ==
  \/ MapThenSumSet(Pending, Workers) <= 1
  \/ /\ web = NoRequest /\ Cardinality(db.roles) <= 1
     /\ \A a \in Accounts : a \in DOMAIN account /\ account[a].active /\ ~ account[a].superuser

Init == InitGroups /\ account = <<>> /\ web = NoRequest

Steps ==
  \/ \E w \in Workers : PostCreate(w) /\ UNCHANGED <<account, web>>
  \/ \E w \in Workers : PostEdit(w) /\ UNCHANGED <<account, web>>
  \/ \E w \in Workers : Commit(w) /\ UNCHANGED <<account, web>>
  \/ \E w \in Workers : Refuse(w) /\ UNCHANGED <<account, web>>
  \/ \E a \in Accounts, superuser \in BOOLEAN : CreateAccount(a, superuser)
  \/ \E a \in Accounts : SetActive(a) \/ ApplyRoleToAccount(a) \/ ProcessRequest(a)
  \/ CheckPermission
  \/ Respond

Next == Steps /\ Bound'

Spec == Init /\ [][Next]_vars

-----------------------------------------------------------------------------
(* Properties *)

TypeOK ==
  /\ GroupsTypeOK
  /\ \A a \in DOMAIN account : a \in Accounts
  /\ \A r \in db.roles : r[1] \in DOMAIN account
  /\ web # NoRequest => web.phase \in {"loaded", "allowed", "denied"}

\* A request is allowed only to an account that was active when it began and
\* that is a superuser or has, by the last forms of the administrators, the
\* permission through a role: taking the permission of a group away is felt by
\* the requests already loaded, unless an overtaken form was missed.
AllowedOnlyIfGiven ==
  [][CheckPermission /\ web'.phase = "allowed" =>
       /\ web.beganActive
       /\ \/ web.user.superuser
          \/ Perm \in RolePermissions(want, web.user.id)
          \/ \E g \in Missed(db, want) : <<web.user.id, g>> \in db.roles]_vars
=============================================================================
