----------------------------- MODULE AuthGroups -----------------------------
(***************************************************************************)
(* How the user groups of the membership application are mirrored as       *)
(* groups of django.contrib.auth, which hold the permissions and are given *)
(* to accounts as roles: GenericUserGroupFormset in forms__deprecated.py   *)
(* over Group and LoginAccountRoleRelation of contrib/auth/models.py.      *)
(* Workers of the web server serve requests that create or edit groups;    *)
(* what a group had before is read when the formset is made, and the       *)
(* difference is written in a transaction later.                           *)
(***************************************************************************)
EXTENDS Integers, Sequences, FiniteSets, FiniteSetsExt, SequencesExt

CONSTANTS
  Workers, Accounts,
  Names,            \* names of groups
  PermissionSets,   \* sets of permissions that a client may select
  MaxGroups         \* bound: groups, and forms of one request

NoName == "no name"

ASSUME GroupsAssumption ==
  MaxGroups \in Nat /\ {} \in PermissionSets /\ NoName \notin Names

VARIABLES
  db,     \* the database: names, auth and roles, see InitDb
  req,    \* request of each worker
  want    \* history: permissions of each group as the last committed form has them

groupVars == <<db, req, want>>

NoMirror == [name |-> NoName, perms |-> {}]

\* Groups are numbered as they are created.  names is the name of each group,
\* auth the group of django.contrib.auth related to it, roles the pairs of an
\* account and a group whose mirror is applied to it.
InitDb == [names |-> <<>>, auth |-> <<>>, roles |-> {}]

Mirrored(d, g) == d.auth[g] # NoMirror

Idle == [phase |-> "idle"]
Busy(w) == req[w] # Idle
New == 0

-----------------------------------------------------------------------------
(* One form of a transaction, at state [d, ok] of it; after an error there *)
(* is only the rollback.                                                   *)

\* auth.models.Group.objects.create and GenericGroupAuthRelation.objects.create:
\* the name is unique, and so is the relation of a group.
CreateMirror(t, g, form) ==
  IF Mirrored(t.d, g) \/ \E h \in DOMAIN t.d.auth : t.d.auth[h].name = form.name
  THEN [t EXCEPT !.ok = FALSE]
  ELSE [t EXCEPT !.d.auth[g] = [name |-> form.name, perms |-> form.perms]]

\* Bug: the relation to accounts does not cascade.
DeleteMirrorKeepsRoles(t, g) == [t EXCEPT !.d.auth[g] = NoMirror]

\* Deleting a group of django.contrib.auth takes its roles away by CASCADE.
DeleteMirror(t, g) ==
  [t EXCEPT !.d.auth[g] = NoMirror,
            !.d.roles = {r \in @ : r[2] # g}]

\* _insert_auth_group
InsertAuthGroup(t, g, form) ==
  IF form.perms = {} THEN t ELSE CreateMirror(t, g, form)

\* Bug: permissions.add instead of permissions.set.
UpdateAuthGroupAdds(t, g, form) ==
  CASE form.perms = form.old -> t
    [] form.perms # form.old /\ form.old = {} -> CreateMirror(t, g, form)
    [] form.perms # form.old /\ form.old # {} ->
         IF ~ Mirrored(t.d, g) THEN [t EXCEPT !.ok = FALSE]
         ELSE IF form.perms = {} THEN DeleteMirror(t, g)
         ELSE [t EXCEPT !.d.auth[g].perms = @ \cup form.perms]

\* Bug: the mirror is created though the group has one.
UpdateAuthGroupCreates(t, g, form) ==
  IF form.perms = form.old THEN t
  ELSE IF form.perms = {} THEN DeleteMirror(t, g)
  ELSE CreateMirror(t, g, form)

\* Bug: the mirror is deleted and created anew.
UpdateAuthGroupReplaces(t, g, form) ==
  IF form.perms = form.old THEN t
  ELSE IF form.perms = {} THEN DeleteMirror(t, g)
  ELSE CreateMirror(DeleteMirror(t, g), g, form)

\* _update_auth_group compares the form with what the group had when the
\* formset was made.  The mirror is never renamed.
UpdateAuthGroup(t, g, form) ==
  CASE form.perms = form.old -> t
    [] form.perms # form.old /\ form.old = {} -> CreateMirror(t, g, form)
    [] form.perms # form.old /\ form.old # {} ->
         IF ~ Mirrored(t.d, g) THEN [t EXCEPT !.ok = FALSE]
         ELSE IF form.perms = {} THEN DeleteMirror(t, g)
         ELSE [t EXCEPT !.d.auth[g].perms = form.perms]

SaveForm(t, form) ==
  LET g == Len(t.d.names) + 1
  IN  CASE ~ t.ok -> t
        [] t.ok /\ form.group = New ->
             InsertAuthGroup([t EXCEPT !.d.names = Append(@, form.name),
                                       !.d.auth = Append(@, NoMirror)], g, form)
        [] t.ok /\ form.group # New ->
             UpdateAuthGroup([t EXCEPT !.d.names[form.group] = form.name], form.group, form)

\* The state of the transaction after the first i forms.
Saved(forms) ==
  LET t[i \in 0..Len(forms)] ==
        IF i = 0 THEN [d |-> db, ok |-> TRUE] ELSE SaveForm(t[i - 1], forms[i])
  IN  t

SaveAll(forms) == Saved(forms)[Len(forms)]

-----------------------------------------------------------------------------
InitGroups ==
  /\ db = InitDb
  /\ req = [w \in Workers |-> Idle]
  /\ want = <<>>

Pending(w) == IF Busy(w) THEN Len(req[w].forms) ELSE 0

\* Bound: two requests overlap with one form each.
MayPost(w, n) ==
  /\ ~ Busy(w) /\ n > 0
  /\ (\E v \in Workers : Busy(v)) => n = 1 /\ \A v \in Workers : Pending(v) <= 1

Begin(w, forms) ==
  req' = [req EXCEPT ![w] = [phase |-> "posted", forms |-> forms, stale |-> FALSE]]

\* UserGroupsCreateView.post
PostCreate(w) ==
  /\ \E n \in 1..(MaxGroups - Len(db.names)) :
       /\ MayPost(w, n)
       /\ \E forms \in [1..n -> [group : {New}, name : Names, perms : PermissionSets, old : {{}}]] :
            Begin(w, forms)
  /\ UNCHANGED <<db, want>>

\* UserGroupsEditView.post: _init_IDs_permission_selected reads the permissions
\* of the edited groups.
PostEdit(w) ==
  /\ \E S \in SUBSET DOMAIN db.names :
       /\ MayPost(w, Cardinality(S))
       /\ \E form \in [S -> Names \X PermissionSets], order \in SetToSeqs(S) :
            Begin(w, [i \in DOMAIN order |->
                        [group |-> order[i], name |-> form[order[i]][1],
                         perms |-> form[order[i]][2], old |-> db.auth[order[i]].perms]])
  /\ UNCHANGED <<db, want>>

End(w) ==
  req' = [v \in Workers |->
            IF v = w THEN Idle
            ELSE IF Busy(v) /\ db' # db THEN [req[v] EXCEPT !.stale = TRUE]
            ELSE req[v]]

\* insert() or update(), when nothing in it raises.
Commit(w) ==
  LET t == SaveAll(req[w].forms)
      forms == req[w].forms
      of(g) == {i \in DOMAIN forms : IF g > Len(db.names) THEN i = g - Len(db.names)
                                     ELSE forms[i].group = g}
  IN  /\ Busy(w) /\ t.ok /\ Len(t.d.names) <= MaxGroups
      /\ db' = t.d
      /\ want' = [g \in DOMAIN t.d.names |->
                    IF of(g) = {} THEN want[g] ELSE forms[CHOOSE i \in of(g) : TRUE].perms]
      /\ End(w)

\* An error of one form rolls back all of them.
Refuse(w) ==
  /\ Busy(w) /\ ~ SaveAll(req[w].forms).ok
  /\ UNCHANGED <<db, want>>
  /\ End(w)

\* External: an administrator applies a role to an account.
ApplyRole(a, g) ==
  /\ g \in DOMAIN db.names /\ Mirrored(db, g) /\ <<a, g>> \notin db.roles
  /\ db' = [db EXCEPT !.roles = @ \cup {<<a, g>>}]
  /\ UNCHANGED <<req, want>>

-----------------------------------------------------------------------------
(* Properties *)

GroupsTypeOK ==
  /\ Len(db.auth) = Len(db.names) /\ Len(want) = Len(db.names)
  /\ Len(db.names) <= MaxGroups
  /\ \A g \in DOMAIN db.names :
       /\ db.names[g] \in Names
       /\ Mirrored(db, g) => db.auth[g].name \in Names /\ db.auth[g].perms # {}
  /\ \A r \in db.roles : r[1] \in Accounts /\ Mirrored(db, r[2])

\* The groups whose permissions are not those of the last committed form.
Missed(d, wanted) == {g \in DOMAIN wanted : d.auth[g].perms # wanted[g]}

\* A group ends up with other permissions than a committed form asks for
\* only when another transaction came between the POST, which reads what the
\* group had, and the form's own transaction; the next form puts it right.
OnlyOvertakenMisses ==
  [][\A w \in Workers :
       Commit(w) /\ ~ req[w].stale =>
         Missed(db', want') = Missed(db, want) \ {req[w].forms[i].group : i \in DOMAIN req[w].forms}]_groupVars

\* Groups with distinct names get in each other's way only when one of them
\* has been renamed, before or by the same request: its mirror keeps the
\* name it was created with.
OnlyRenamedRefuses ==
  [][\A w \in Workers :
       LET forms == req[w].forms
           rest == {g \in DOMAIN db.names : \A i \in DOMAIN forms : forms[i].group # g}
           renamed(g) == Mirrored(db, g) /\ db.auth[g].name # db.names[g]
       IN  Refuse(w) /\ ~ req[w].stale =>
             \/ \E i, j \in DOMAIN forms : i # j /\ forms[i].name = forms[j].name
             \/ \E i \in DOMAIN forms, g \in rest : forms[i].name = db.names[g]
             \/ \E g \in DOMAIN db.names : renamed(g)
             \/ \E i \in DOMAIN forms : /\ forms[i].group # New
                                        /\ forms[i].name # db.names[forms[i].group]]_groupVars

\* Accounts lose a role only when a request takes all the permissions of the
\* group away; changing some of them keeps it.
RolesLostOnlyByEmptying ==
  [][\A r \in db.roles : r \notin db'.roles =>
       \E w \in Workers : /\ Busy(w) /\ req'[w] = Idle
                          /\ \E i \in DOMAIN req[w].forms :
                               req[w].forms[i].group = r[2] /\ req[w].forms[i].perms = {}]_groupVars
=============================================================================
