------------------------ MODULE AccountAccessProofs ------------------------
(***************************************************************************)
(* Proofs about the groups, roles and accounts of AccountAccess, for any   *)
(* number of workers, accounts, groups and forms of a request.             *)
(***************************************************************************)
EXTENDS AccountAccess, FiniteSetTheorems, WellFoundedInduction, TLAPS

-----------------------------------------------------------------------------
(* Induction along the forms of a request *)

\* A set that has 0, and with a number the next, has all of 0..n.
LEMMA NatSetInduction ==
  ASSUME NEW n \in Nat, NEW S, 0 \in S,
         \A i \in 1..n : i - 1 \in S => i \in S
  PROVE  0..n \subseteq S
  <1> SUFFICES ASSUME NEW b \in 0..n, b \notin S PROVE FALSE
    OBVIOUS
  <1> DEFINE T == (0..n) \ S
  <1>1. T \subseteq Nat /\ T # {}
    OBVIOUS
  <1>2. \E x \in T : \A y \in T : ~ (y < x)
    <2>1. \E x \in T : \A y \in T : ~ (<<y, x>> \in OpToRel(<, Nat))
      BY <1>1, WFMin, NatLessThanWellFounded
    <2>2. ASSUME NEW x \in T, NEW y \in T, y < x PROVE <<y, x>> \in OpToRel(<, Nat)
      BY <1>1, <2>2 DEF OpToRel
    <2> QED
      BY <2>1, <2>2, Zenon
  <1>3. PICK x \in T : \A y \in T : ~ (y < x)
    BY <1>2
  <1>4. x \in 1..n /\ x \notin S
    <2>1. x \in 0..n /\ x \notin S
      OBVIOUS
    <2> QED
      BY <2>1
  <1>5. x - 1 \in S
    <2>1. x - 1 \in 0..n /\ x - 1 < x
      BY <1>4
    <2> QED
      BY <1>3, <2>1
  <1> QED
    BY <1>4, <1>5

Start == [d |-> db, ok |-> TRUE]

\* The forms are saved one after the other, each on what the one before left.
LEMMA SavedIs ==
  ASSUME NEW forms, Len(forms) \in Nat
  PROVE  /\ Saved(forms)[0] = Start
         /\ \A i \in 1..Len(forms) : Saved(forms)[i] = SaveForm(Saved(forms)[i - 1], forms[i])
  <1> DEFINE Upto(f, n) == f = [i \in 0..n |-> IF i = 0 THEN Start
                                               ELSE SaveForm(f[i - 1], forms[i])]
             S == {n \in 0..Len(forms) : \E f : Upto(f, n)}
  <1>1. 0 \in S
    <2> DEFINE f == [i \in 0..0 |-> Start]
    <2>1. Upto(f, 0)
      OBVIOUS
    <2> HIDE DEF f, Upto
    <2> QED
      BY <2>1
  <1>2. ASSUME NEW n \in 1..Len(forms), n - 1 \in S PROVE n \in S
    <2>1. PICK f : Upto(f, n - 1)
      BY <1>2
    <2> DEFINE h == [i \in 0..n |-> IF i = n THEN SaveForm(f[n - 1], forms[n]) ELSE f[i]]
    <2>2. h[0] = Start
      BY <2>1
    <2>3. ASSUME NEW i \in 1..n PROVE h[i] = SaveForm(h[i - 1], forms[i])
      <3>1. h[i - 1] = f[i - 1]
        OBVIOUS
      <3>2. i # n => f[i] = SaveForm(f[i - 1], forms[i])
        BY <2>1
      <3> QED
        BY <3>1, <3>2
    <2>4. Upto(h, n)
      <3> DEFINE k == [i \in 0..n |-> IF i = 0 THEN Start ELSE SaveForm(h[i - 1], forms[i])]
      <3>1. \A i \in 0..n : h[i] = k[i]
        <4> SUFFICES ASSUME NEW i \in 0..n PROVE h[i] = k[i]
          OBVIOUS
        <4>1. CASE i = 0
          BY <4>1, <2>2
        <4>2. CASE i # 0
          <5>1. i \in 1..n
            BY <4>2
          <5> HIDE DEF h
          <5> QED
            BY <4>2, <5>1, <2>3
        <4> QED
          BY <4>1, <4>2
      <3>2. DOMAIN h = 0..n /\ h = [i \in DOMAIN h |-> h[i]]
        OBVIOUS
      <3>3. DOMAIN k = 0..n /\ k = [i \in DOMAIN k |-> k[i]]
        OBVIOUS
      <3>4. h = k
        <4> HIDE DEF h, k
        <4> QED
          BY <3>1, <3>2, <3>3
      <3> QED
        BY <3>4
    <2> HIDE DEF h
    <2> QED
      BY <2>4
  <1> HIDE DEF S
  <1>3. 0..Len(forms) \subseteq S
    <2>1. \A n \in 1..Len(forms) : n - 1 \in S => n \in S
      BY <1>2
    <2> QED
      BY <1>1, <2>1, NatSetInduction
  <1>4. \E f : Upto(f, Len(forms))
    <2>1. Len(forms) \in S
      BY <1>3
    <2> HIDE DEF Upto
    <2> QED
      BY <2>1 DEF S
  <1> DEFINE T == CHOOSE f : Upto(f, Len(forms))
  <1>5. Upto(T, Len(forms))
    BY <1>4
  <1>6. Saved(forms) = T
    BY DEF Saved, Start
  <1> HIDE DEF T
  <1>7. /\ T[0] = Start
        /\ \A i \in 1..Len(forms) : T[i] = SaveForm(T[i - 1], forms[i])
    BY <1>5
  <1> QED
    BY <1>6, <1>7

-----------------------------------------------------------------------------
(* One form of a transaction *)

Mirror == {NoMirror} \cup [name : Names, perms : PermissionSets \ {{}}]

Database == [names : Seq(Names), auth : Seq(Mirror), roles : SUBSET (Accounts \X Nat)]

\* Every group has a place for its mirror, and every role is of a mirror.
DbOK(d) ==
  /\ d \in Database
  /\ Len(d.auth) = Len(d.names)
  /\ \A r \in d.roles : r[2] \in 1..Len(d.names) /\ Mirrored(d, r[2])

Form == [group : Nat, name : Names, perms : PermissionSets, old : PermissionSets]

\* A form for a group of d, or for a new one.
FormOK(d, f) ==
  /\ f \in Form
  /\ f.group = New => f.old = {}
  /\ f.group # New => f.group \in 1..Len(d.names)

\* The number of the group that a form writes to.
Written(d, f) == IF f.group = New THEN Len(d.names) + 1 ELSE f.group

\* The form is about what the group really has.
Fresh(d, f) == f.group # New => d.auth[f.group].perms = f.old

\* Another group is mirrored under the name of the form.
Clash(d, f) == \E h \in 1..Len(d.names) : h # Written(d, f) /\ d.auth[h].name = f.name

LEMMA MirrorFacts ==
  ASSUME NEW d, DbOK(d), NEW g \in 1..Len(d.names)
  PROVE  /\ d.auth[g].perms \in PermissionSets
         /\ Mirrored(d, g) <=> d.auth[g].perms # {}
         /\ Mirrored(d, g) => d.auth[g] \in [name : Names, perms : PermissionSets \ {{}}]
         /\ ~ Mirrored(d, g) => d.auth[g].name = NoName
         /\ Mirrored(d, g) => d.auth[g].name \in Names
  <1>1. d.auth[g] \in Mirror
    BY DEF DbOK, Database
  <1>2. CASE d.auth[g] = NoMirror
    BY <1>2, GroupsAssumption DEF NoMirror, Mirrored
  <1>3. CASE d.auth[g] \in [name : Names, perms : PermissionSets \ {{}}]
    BY <1>3 DEF NoMirror, Mirrored
  <1> QED
    BY <1>1, <1>2, <1>3 DEF Mirror

\* A transaction in which nothing has raised.
Open(t) == DOMAIN t = {"d", "ok"} /\ t.ok = TRUE /\ DbOK(t.d)

\* What CreateMirror makes of the mirror of g, and when it refuses.
LEMMA CreateMirrorIs ==
  ASSUME NEW t, Open(t), NEW f \in Form, f.perms # {},
         NEW g \in 1..Len(t.d.names)
  PROVE  LET s == CreateMirror(t, g, f)
         IN  /\ s.ok \in BOOLEAN
             /\ s.ok => /\ Open(s) /\ s.d.names = t.d.names /\ s.d.roles = t.d.roles
                        /\ s.d.auth[g].perms = f.perms /\ s.d.auth[g].name = f.name
                        /\ \A h \in 1..Len(t.d.names) : h # g => s.d.auth[h] = t.d.auth[h]
             /\ ~ s.ok => \/ t.d.auth[g].perms # {}
                          \/ \E h \in 1..Len(t.d.names) : h # g /\ t.d.auth[h].name = f.name
  <1> DEFINE m == [name |-> f.name, perms |-> f.perms]
             bad == Mirrored(t.d, g) \/ \E h \in DOMAIN t.d.auth : t.d.auth[h].name = f.name
             e == [t.d EXCEPT !.auth[g] = m]
  <1>1. DOMAIN t = {"d", "ok"} /\ t.ok = TRUE /\ DbOK(t.d) /\ t.d \in Database
    BY DEF Open, DbOK
  <1>2. DOMAIN t.d.auth = 1..Len(t.d.names) /\ Len(t.d.names) \in Nat
    BY <1>1 DEF DbOK, Database
  <1>3. CASE bad
    <2>1. CreateMirror(t, g, f) = [t EXCEPT !.ok = FALSE]
      BY <1>3 DEF CreateMirror
    <2>2. CreateMirror(t, g, f).ok = FALSE
      BY <1>1, <2>1
    <2>3. t.d.auth[g].name = f.name => t.d.auth[g].perms # {}
      BY <1>1, MirrorFacts, GroupsAssumption DEF Form
    <2> QED
      BY <1>1, <1>2, <1>3, <2>2, <2>3, MirrorFacts
  <1>4. CASE ~ bad
    <2>1. CreateMirror(t, g, f) = [t EXCEPT !.d.auth[g] = m]
      BY <1>4 DEF CreateMirror
    <2>2. /\ CreateMirror(t, g, f).d = e /\ CreateMirror(t, g, f).ok = TRUE
          /\ DOMAIN CreateMirror(t, g, f) = {"d", "ok"}
      BY <1>1, <2>1
    <2>3. m \in [name : Names, perms : PermissionSets \ {{}}] /\ m \in Mirror /\ m # NoMirror
      BY DEF Form, Mirror, NoMirror
    <2>4. e = [names |-> t.d.names, auth |-> [t.d.auth EXCEPT ![g] = m], roles |-> t.d.roles]
      <3> DEFINE b == t.d
      <3>1. b \in [names : Seq(Names), auth : Seq(Mirror), roles : SUBSET (Accounts \X Nat)]
        BY <1>1 DEF Database
      <3>2. e = [b EXCEPT !.auth[g] = m]
        OBVIOUS
      <3> HIDE DEF e, b, m
      <3>3. e = [names |-> b.names, auth |-> [b.auth EXCEPT ![g] = m], roles |-> b.roles]
        BY <3>1, <3>2
      <3> QED
        BY <3>3 DEF b
    <2>5. [t.d.auth EXCEPT ![g] = m] \in Seq(Mirror) /\ Len([t.d.auth EXCEPT ![g] = m]) = Len(t.d.auth)
      BY <1>1, <1>2, <2>3 DEF Database
    <2>6. e \in Database
      BY <1>1, <2>4, <2>5 DEF Database
    <2>7. \A h \in 1..Len(t.d.names) : e.auth[h] = IF h = g THEN m ELSE t.d.auth[h]
      BY <1>2, <2>4
    <2>8. DbOK(e)
      BY <1>1, <2>3, <2>4, <2>5, <2>6, <2>7 DEF DbOK, Mirrored
    <2>9. e.names = t.d.names /\ e.roles = t.d.roles
      BY <2>4
    <2>10. e.auth[g].perms = f.perms /\ e.auth[g].name = f.name
      BY <2>7
    <2> HIDE DEF e
    <2> QED
      BY <2>2, <2>7, <2>8, <2>9, <2>10 DEF Open
  <1> QED
    BY <1>3, <1>4

LEMMA DeleteMirrorIs ==
  ASSUME NEW t, Open(t), NEW g \in 1..Len(t.d.names)
  PROVE  LET s == DeleteMirror(t, g)
         IN  /\ s.ok \in BOOLEAN /\ s.ok /\ Open(s) /\ s.d.names = t.d.names
             /\ s.d.auth[g] = NoMirror
             /\ \A h \in 1..Len(t.d.names) : h # g => s.d.auth[h] = t.d.auth[h]
             /\ s.d.roles \subseteq t.d.roles
             /\ \A r \in t.d.roles : r \in s.d.roles <=> r[2] # g
  <1> DEFINE b == t.d
             e == [names |-> b.names, auth |-> [b.auth EXCEPT ![g] = NoMirror],
                   roles |-> {r \in b.roles : r[2] # g}]
  <1>1. DOMAIN t = {"d", "ok"} /\ t.ok = TRUE /\ DbOK(b) /\ b \in Database
    BY DEF Open, DbOK
  <1>2. b \in [names : Seq(Names), auth : Seq(Mirror), roles : SUBSET (Accounts \X Nat)]
    BY <1>1 DEF Database
  <1>3. DOMAIN b.auth = 1..Len(b.names) /\ Len(b.names) \in Nat /\ g \in 1..Len(b.names)
    BY <1>1, <1>2 DEF DbOK
  <1>4. /\ DeleteMirror(t, g).d = e /\ DeleteMirror(t, g).ok = TRUE
        /\ DOMAIN DeleteMirror(t, g) = {"d", "ok"}
    <2>1. /\ DeleteMirror(t, g).d = [b EXCEPT !.auth[g] = NoMirror, !.roles = {r \in @ : r[2] # g}]
          /\ DeleteMirror(t, g).ok = TRUE /\ DOMAIN DeleteMirror(t, g) = {"d", "ok"}
      BY <1>1 DEF DeleteMirror
    <2>2. [b EXCEPT !.auth[g] = NoMirror, !.roles = {r \in @ : r[2] # g}] =
            [b EXCEPT !.auth[g] = NoMirror, !.roles = {r \in b.roles : r[2] # g}]
      BY <1>2
    <2>3. [b EXCEPT !.auth[g] = NoMirror, !.roles = {r \in b.roles : r[2] # g}] = e
      <3> DEFINE R == {r \in b.roles : r[2] # g}
                 c == [b EXCEPT !.auth[g] = NoMirror]
      <3> HIDE DEF b, R
      <3>1. [b EXCEPT !.auth[g] = NoMirror, !.roles = R] = [c EXCEPT !.roles = R]
        OBVIOUS
      <3>2. c = [names |-> b.names, auth |-> [b.auth EXCEPT ![g] = NoMirror], roles |-> b.roles]
        <4> DEFINE m == NoMirror
        <4>1. c = [b EXCEPT !.auth[g] = m]
          OBVIOUS
        <4> HIDE DEF c, e, m
        <4>2. c = [names |-> b.names, auth |-> [b.auth EXCEPT ![g] = m], roles |-> b.roles]
          BY <1>2, <4>1
        <4> QED
          BY <4>2 DEF m
      <3> HIDE DEF c
      <3>3. [c EXCEPT !.roles = R] =
              [names |-> b.names, auth |-> [b.auth EXCEPT ![g] = NoMirror], roles |-> R]
        BY <3>2
      <3> QED
        BY <3>1, <3>3 DEF R
    <2> QED
      BY <2>1, <2>2, <2>3
  <1>5. NoMirror \in Mirror
    BY DEF Mirror
  <1>6. [b.auth EXCEPT ![g] = NoMirror] \in Seq(Mirror)
        /\ Len([b.auth EXCEPT ![g] = NoMirror]) = Len(b.auth)
    <2> HIDE DEF b
    <2> QED
      BY <1>2, <1>3, <1>5
  <1>7. \A h \in 1..Len(b.names) : e.auth[h] = IF h = g THEN NoMirror ELSE b.auth[h]
    BY <1>3
  <1>8. DbOK(e)
    <2>1. e \in Database
      BY <1>2, <1>6 DEF Database
    <2> QED
      BY <1>1, <1>6, <1>7, <2>1 DEF DbOK, Mirrored
  <1> HIDE DEF e
  <1>9. e.names = b.names /\ e.roles = {r \in b.roles : r[2] # g}
    BY DEF e
  <1> QED
    BY <1>4, <1>7, <1>8, <1>9 DEF Open

\* permissions.set on the mirror of g.
SetPerms(t, g, P) == [t EXCEPT !.d.auth[g].perms = P]

LEMMA SetPermsIs ==
  ASSUME NEW t, Open(t), NEW g \in 1..Len(t.d.names),
         Mirrored(t.d, g), NEW P \in PermissionSets, P # {}
  PROVE  LET s == SetPerms(t, g, P)
         IN  /\ s.ok \in BOOLEAN /\ s.ok /\ Open(s) /\ s.d.names = t.d.names /\ s.d.roles = t.d.roles
             /\ s.d.auth[g].perms = P /\ s.d.auth[g].name = t.d.auth[g].name
             /\ \A h \in 1..Len(t.d.names) : h # g => s.d.auth[h] = t.d.auth[h]
  <1> DEFINE b == t.d
             m == [name |-> b.auth[g].name, perms |-> P]
             e == [names |-> b.names, auth |-> [b.auth EXCEPT ![g] = m], roles |-> b.roles]
  <1>1. DOMAIN t = {"d", "ok"} /\ t.ok = TRUE /\ DbOK(b) /\ b \in Database
    BY DEF Open, DbOK
  <1>2. b \in [names : Seq(Names), auth : Seq(Mirror), roles : SUBSET (Accounts \X Nat)]
    BY <1>1 DEF Database
  <1>3. DOMAIN b.auth = 1..Len(b.names) /\ Len(b.names) \in Nat /\ g \in 1..Len(b.names)
    BY <1>1, <1>2 DEF DbOK
  <1>4. b.auth[g] \in [name : Names, perms : PermissionSets \ {{}}]
    BY <1>1, MirrorFacts
  <1>5. m \in [name : Names, perms : PermissionSets \ {{}}] /\ m \in Mirror /\ m # NoMirror
    BY <1>4 DEF Mirror, NoMirror
  <1>6. /\ SetPerms(t, g, P).d = e /\ SetPerms(t, g, P).ok = TRUE
        /\ DOMAIN SetPerms(t, g, P) = {"d", "ok"}
    <2>1. /\ SetPerms(t, g, P).d = [b EXCEPT !.auth[g].perms = P]
          /\ SetPerms(t, g, P).ok = TRUE /\ DOMAIN SetPerms(t, g, P) = {"d", "ok"}
      BY <1>1 DEF SetPerms
    <2> HIDE DEF b
    <2>2. [b.auth[g] EXCEPT !.perms = P] = m
      BY <1>4
    <2>3. [b.auth EXCEPT ![g].perms = P] = [b.auth EXCEPT ![g] = m]
      BY <2>2
    <2>4. [b EXCEPT !.auth[g].perms = P] = [b EXCEPT !.auth = [b.auth EXCEPT ![g].perms = P]]
      OBVIOUS
    <2>5. [b EXCEPT !.auth[g].perms = P] = e
      <3> DEFINE y == [b.auth EXCEPT ![g].perms = P]
      <3> HIDE DEF y
      <3>1. [b EXCEPT !.auth = y] = [names |-> b.names, auth |-> y, roles |-> b.roles]
        BY <1>2
      <3> QED
        BY <2>3, <2>4, <3>1 DEF y
    <2> QED
      BY <2>1, <2>5
  <1>7. [b.auth EXCEPT ![g] = m] \in Seq(Mirror) /\ Len([b.auth EXCEPT ![g] = m]) = Len(b.auth)
    <2> HIDE DEF b, m
    <2> QED
      BY <1>2, <1>3, <1>5
  <1>8. \A h \in 1..Len(b.names) : e.auth[h] = IF h = g THEN m ELSE b.auth[h]
    BY <1>3
  <1>9. DbOK(e)
    <2>1. e \in Database
      BY <1>2, <1>7 DEF Database
    <2> QED
      BY <1>1, <1>5, <1>7, <1>8, <2>1 DEF DbOK, Mirrored
  <1>10. e.names = b.names /\ e.roles = b.roles
    OBVIOUS
  <1>11. e.auth[g].perms = P /\ e.auth[g].name = b.auth[g].name
    BY <1>8
  <1> HIDE DEF e
  <1> QED
    BY <1>6, <1>8, <1>9, <1>10, <1>11 DEF Open

\* The group of the form gets its name before its permissions.
Renamed(t, f) ==
  IF f.group = New THEN [t EXCEPT !.d.names = Append(@, f.name), !.d.auth = Append(@, NoMirror)]
  ELSE [t EXCEPT !.d.names[f.group] = f.name]

LEMMA RenamedIs ==
  ASSUME NEW t, Open(t), NEW f, FormOK(t.d, f)
  PROVE  LET s == Renamed(t, f)
             g == Written(t.d, f)
         IN  /\ Open(s) /\ s.d.roles = t.d.roles
             /\ Len(s.d.names) = Len(t.d.names) + (IF f.group = New THEN 1 ELSE 0)
             /\ g \in 1..Len(s.d.names) /\ s.d.names[g] = f.name
             /\ \A h \in 1..Len(t.d.names) : h # g => s.d.names[h] = t.d.names[h]
             /\ \A h \in 1..Len(t.d.names) : s.d.auth[h] = t.d.auth[h]
             /\ f.group = New => s.d.auth[g] = NoMirror
  <1> DEFINE b == t.d
             e == IF f.group = New
                  THEN [names |-> Append(b.names, f.name), auth |-> Append(b.auth, NoMirror),
                        roles |-> b.roles]
                  ELSE [names |-> [b.names EXCEPT ![f.group] = f.name], auth |-> b.auth,
                        roles |-> b.roles]
  <1>1. DOMAIN t = {"d", "ok"} /\ t.ok = TRUE /\ DbOK(b) /\ b \in Database
    BY DEF Open, DbOK
  <1>2. b \in [names : Seq(Names), auth : Seq(Mirror), roles : SUBSET (Accounts \X Nat)]
    BY <1>1 DEF Database
  <1>3. f.name \in Names /\ f.group \in Nat /\ NoMirror \in Mirror
    BY DEF FormOK, Form, Mirror
  <1>4. Len(b.auth) = Len(b.names) /\ Len(b.names) \in Nat
        /\ \A r \in b.roles : r[2] \in 1..Len(b.names) /\ b.auth[r[2]] # NoMirror
    BY <1>1 DEF DbOK, Mirrored, Database
  <1>5. Renamed(t, f).d = e /\ Renamed(t, f).ok = TRUE /\ DOMAIN Renamed(t, f) = {"d", "ok"}
    <2>1. CASE f.group = New
      <3>1. /\ Renamed(t, f).d = [b EXCEPT !.names = Append(@, f.name), !.auth = Append(@, NoMirror)]
            /\ Renamed(t, f).ok = TRUE /\ DOMAIN Renamed(t, f) = {"d", "ok"}
        BY <1>1, <2>1 DEF Renamed
      <3>2. [b EXCEPT !.names = Append(@, f.name), !.auth = Append(@, NoMirror)] =
              [b EXCEPT !.names = Append(b.names, f.name), !.auth = Append(b.auth, NoMirror)]
        BY <1>2
      <3>3. [b EXCEPT !.names = Append(b.names, f.name), !.auth = Append(b.auth, NoMirror)] = e
        <4> DEFINE x == Append(b.names, f.name)
                   y == Append(b.auth, NoMirror)
                   c == [b EXCEPT !.names = x]
        <4> HIDE DEF b, x, y
        <4>1. [b EXCEPT !.names = x, !.auth = y] = [c EXCEPT !.auth = y]
          OBVIOUS
        <4>2. c = [names |-> x, auth |-> b.auth, roles |-> b.roles]
          BY <1>2
        <4> HIDE DEF c
        <4>3. [c EXCEPT !.auth = y] = [names |-> x, auth |-> y, roles |-> b.roles]
          BY <4>2
        <4> QED
          BY <2>1, <4>1, <4>3 DEF x, y
      <3> QED
        BY <3>1, <3>2, <3>3
    <2>2. CASE f.group # New
      <3>1. /\ Renamed(t, f).d = [b EXCEPT !.names[f.group] = f.name]
            /\ Renamed(t, f).ok = TRUE /\ DOMAIN Renamed(t, f) = {"d", "ok"}
        BY <1>1, <2>2 DEF Renamed
      <3> HIDE DEF b
      <3> QED
        BY <1>2, <2>2, <3>1
    <2> QED
      BY <2>1, <2>2
  <1>6. CASE f.group = New
    <2> HIDE DEF b
    <2>1. /\ e.names = Append(b.names, f.name) /\ e.auth = Append(b.auth, NoMirror)
          /\ e.roles = b.roles /\ e = [names |-> e.names, auth |-> e.auth, roles |-> e.roles]
      BY <1>6
    <2> HIDE DEF e
    <2>2. /\ e.names \in Seq(Names) /\ Len(e.names) = Len(b.names) + 1
          /\ \A h \in 1..Len(b.names) : e.names[h] = b.names[h]
          /\ e.names[Len(b.names) + 1] = f.name
      BY <1>2, <1>3, <2>1
    <2>3. /\ e.auth \in Seq(Mirror) /\ Len(e.auth) = Len(b.names) + 1
          /\ \A h \in 1..Len(b.names) : e.auth[h] = b.auth[h]
          /\ e.auth[Len(b.names) + 1] = NoMirror
      BY <1>2, <1>3, <1>4, <2>1
    <2>4. e \in Database
      BY <1>2, <2>1, <2>2, <2>3 DEF Database
    <2>5. DbOK(e)
      BY <1>1, <1>4, <2>1, <2>2, <2>3, <2>4 DEF DbOK, Mirrored
    <2>6. Written(b, f) = Len(b.names) + 1
      BY <1>6 DEF Written
    <2> QED
      BY <1>4, <1>5, <1>6, <2>1, <2>2, <2>3, <2>4, <2>5, <2>6 DEF b, Open
  <1>7. CASE f.group # New
    <2>1. f.group \in 1..Len(b.names)
      BY <1>7 DEF FormOK
    <2> HIDE DEF b
    <2>2. /\ e.names = [b.names EXCEPT ![f.group] = f.name] /\ e.auth = b.auth
          /\ e.roles = b.roles /\ e = [names |-> e.names, auth |-> e.auth, roles |-> e.roles]
      BY <1>7
    <2> HIDE DEF e
    <2>3. /\ e.names \in Seq(Names) /\ Len(e.names) = Len(b.names)
          /\ \A h \in 1..Len(b.names) : h # f.group => e.names[h] = b.names[h]
          /\ e.names[f.group] = f.name
      BY <1>2, <1>3, <2>1, <2>2
    <2>4. e \in Database
      BY <1>2, <2>2, <2>3 DEF Database
    <2>5. DbOK(e)
      BY <1>4, <2>2, <2>3, <2>4 DEF DbOK, Mirrored
    <2>6. Written(b, f) = f.group
      BY <1>7 DEF Written
    <2> QED
      BY <1>4, <1>5, <1>7, <2>1, <2>2, <2>3, <2>4, <2>5, <2>6 DEF b, Open
  <1> QED
    BY <1>6, <1>7

LEMMA UpdateIs ==
  ASSUME NEW t, Open(t), NEW f \in Form, NEW g \in 1..Len(t.d.names)
  PROVE  LET s == UpdateAuthGroup(t, g, f)
         IN  /\ s.ok \in BOOLEAN
             /\ s.ok => /\ Open(s) /\ s.d.names = t.d.names
                        /\ t.d.auth[g].perms = f.old => s.d.auth[g].perms = f.perms
                        /\ s.d.auth[g].name \in {NoName, f.name, t.d.auth[g].name}
                        /\ \A h \in 1..Len(t.d.names) : h # g => s.d.auth[h] = t.d.auth[h]
                        /\ s.d.roles \subseteq t.d.roles
                        /\ \A r \in t.d.roles : r \notin s.d.roles => r[2] = g /\ f.perms = {}
             /\ ~ s.ok => \/ t.d.auth[g].perms # f.old
                          \/ \E h \in 1..Len(t.d.names) : h # g /\ t.d.auth[h].name = f.name
  <1>1. t.ok = TRUE /\ DbOK(t.d) /\ f.perms \in PermissionSets
    BY DEF Open, Form
  <1>2. CASE f.perms = f.old
    <2>1. UpdateAuthGroup(t, g, f) = t
      BY <1>2 DEF UpdateAuthGroup
    <2> QED
      BY <1>1, <1>2, <2>1
  <1>3. CASE f.perms # f.old /\ f.old = {}
    <2>1. UpdateAuthGroup(t, g, f) = CreateMirror(t, g, f)
      BY <1>3 DEF UpdateAuthGroup
    <2> QED
      BY <1>1, <1>3, <2>1, CreateMirrorIs
  <1>4. CASE f.perms # f.old /\ f.old # {} /\ ~ Mirrored(t.d, g)
    <2>1. UpdateAuthGroup(t, g, f) = [t EXCEPT !.ok = FALSE]
      BY <1>4 DEF UpdateAuthGroup
    <2>2. UpdateAuthGroup(t, g, f).ok = FALSE
      BY <2>1 DEF Open
    <2>3. t.d.auth[g].perms = {}
      BY <1>1, <1>4, MirrorFacts
    <2> QED
      BY <1>4, <2>2, <2>3
  <1>5. CASE f.perms # f.old /\ f.old # {} /\ Mirrored(t.d, g) /\ f.perms = {}
    <2>1. UpdateAuthGroup(t, g, f) = DeleteMirror(t, g)
      BY <1>5 DEF UpdateAuthGroup
    <2>2. NoMirror.perms = {} /\ NoMirror.name = NoName
      BY DEF NoMirror
    <2> DEFINE s == DeleteMirror(t, g)
    <2>3. /\ s.ok \in BOOLEAN /\ s.ok /\ Open(s) /\ s.d.names = t.d.names
          /\ s.d.auth[g] = NoMirror
          /\ \A h \in 1..Len(t.d.names) : h # g => s.d.auth[h] = t.d.auth[h]
          /\ s.d.roles \subseteq t.d.roles
          /\ \A r \in t.d.roles : r \in s.d.roles <=> r[2] # g
      BY DeleteMirrorIs
    <2> HIDE DEF s
    <2> QED
      BY <1>5, <2>1, <2>2, <2>3 DEF s
  <1>6. CASE f.perms # f.old /\ f.old # {} /\ Mirrored(t.d, g) /\ f.perms # {}
    <2>1. UpdateAuthGroup(t, g, f) = SetPerms(t, g, f.perms)
      BY <1>6 DEF UpdateAuthGroup, SetPerms
    <2> DEFINE s == SetPerms(t, g, f.perms)
    <2>2. /\ s.ok \in BOOLEAN /\ s.ok /\ Open(s) /\ s.d.names = t.d.names /\ s.d.roles = t.d.roles
          /\ s.d.auth[g].perms = f.perms /\ s.d.auth[g].name = t.d.auth[g].name
          /\ \A h \in 1..Len(t.d.names) : h # g => s.d.auth[h] = t.d.auth[h]
      BY <1>1, <1>6, SetPermsIs
    <2> HIDE DEF s
    <2> QED
      BY <1>6, <2>1, <2>2 DEF s
  <1> QED
    BY <1>2, <1>3, <1>4, <1>5, <1>6

\* What saving one form makes of a transaction, and when it raises.
LEMMA SaveFormIs ==
  ASSUME NEW t, Open(t), NEW f, FormOK(t.d, f)
  PROVE  LET s == SaveForm(t, f)
             g == Written(t.d, f)
         IN  /\ s.ok \in BOOLEAN
             /\ s.ok => /\ Open(s)
                        /\ Len(s.d.names) = Len(t.d.names) + (IF f.group = New THEN 1 ELSE 0)
                        /\ s.d.names[g] = f.name
                        /\ Fresh(t.d, f) => s.d.auth[g].perms = f.perms
                        /\ \/ s.d.auth[g].name \in {NoName, f.name}
                           \/ f.group # New /\ s.d.auth[g].name = t.d.auth[g].name
                        /\ \A h \in 1..Len(t.d.names) : h # g =>
                             s.d.names[h] = t.d.names[h] /\ s.d.auth[h] = t.d.auth[h]
                        /\ s.d.roles \subseteq t.d.roles
                        /\ \A r \in t.d.roles : r \notin s.d.roles =>
                             f.group # New /\ r[2] = f.group /\ f.perms = {}
             /\ ~ s.ok => ~ Fresh(t.d, f) \/ Clash(t.d, f)
  <1> DEFINE u == Renamed(t, f)
             g == Written(t.d, f)
  <1>1. /\ Open(u) /\ u.d.roles = t.d.roles
        /\ Len(u.d.names) = Len(t.d.names) + (IF f.group = New THEN 1 ELSE 0)
        /\ g \in 1..Len(u.d.names) /\ u.d.names[g] = f.name
        /\ \A h \in 1..Len(t.d.names) : h # g => u.d.names[h] = t.d.names[h]
        /\ \A h \in 1..Len(t.d.names) : u.d.auth[h] = t.d.auth[h]
        /\ f.group = New => u.d.auth[g] = NoMirror
    BY RenamedIs
  <1>2. f \in Form /\ t.ok = TRUE /\ Len(t.d.names) \in Nat
    BY DEF FormOK, Open, DbOK, Database
  <1>3. NoMirror.perms = {} /\ NoMirror.name = NoName
    BY DEF NoMirror
  <1>4. ASSUME f.group = New
        PROVE  /\ SaveForm(t, f) = InsertAuthGroup(u, g, f)
               /\ g = Len(t.d.names) + 1
    BY <1>2, <1>4 DEF SaveForm, Renamed, Written
  <1>5. ASSUME f.group # New
        PROVE  /\ SaveForm(t, f) = UpdateAuthGroup(u, g, f)
               /\ g = f.group /\ g \in 1..Len(t.d.names)
    BY <1>2, <1>5 DEF SaveForm, Renamed, Written, FormOK
  <1> HIDE DEF u, g
  <1>6. CASE f.group = New /\ f.perms = {}
    <2>1. SaveForm(t, f) = u
      BY <1>4, <1>6 DEF InsertAuthGroup
    <2>2. u.ok = TRUE /\ DbOK(u.d)
      BY <1>1 DEF Open
    <2> QED
      BY <1>1, <1>2, <1>3, <1>4, <1>6, <2>1, <2>2 DEF g
  <1>7. CASE f.group = New /\ f.perms # {}
    <2>1. SaveForm(t, f) = CreateMirror(u, g, f)
      BY <1>4, <1>7 DEF InsertAuthGroup
    <2> DEFINE s == CreateMirror(u, g, f)
    <2>2. /\ s.ok \in BOOLEAN
          /\ s.ok => /\ Open(s) /\ s.d.names = u.d.names /\ s.d.roles = u.d.roles
                     /\ s.d.auth[g].perms = f.perms /\ s.d.auth[g].name = f.name
                     /\ \A h \in 1..Len(u.d.names) : h # g => s.d.auth[h] = u.d.auth[h]
          /\ ~ s.ok => \/ u.d.auth[g].perms # {}
                       \/ \E h \in 1..Len(u.d.names) : h # g /\ u.d.auth[h].name = f.name
      <3>1. Open(u) /\ f \in Form /\ f.perms # {} /\ g \in 1..Len(u.d.names)
        BY <1>1, <1>2, <1>7
      <3> QED
        BY <3>1, CreateMirrorIs
    <2> HIDE DEF s
    <2>3. ~ s.ok => Clash(t.d, f)
      <3> SUFFICES ASSUME ~ s.ok PROVE Clash(t.d, f)
        OBVIOUS
      <3>1. PICK h \in 1..Len(u.d.names) : h # g /\ u.d.auth[h].name = f.name
        BY <1>1, <1>3, <1>7, <2>2
      <3>2. h \in 1..Len(t.d.names) /\ u.d.auth[h] = t.d.auth[h]
        BY <1>1, <1>2, <1>4, <1>7, <3>1
      <3> QED
        BY <3>1, <3>2 DEF Clash, g
    <2> QED
      BY <1>1, <1>2, <1>4, <1>7, <2>1, <2>2, <2>3 DEF g, s
  <1>8. CASE f.group # New
    <2> DEFINE s == UpdateAuthGroup(u, g, f)
    <2>1. /\ s.ok \in BOOLEAN
          /\ s.ok => /\ Open(s) /\ s.d.names = u.d.names
                     /\ u.d.auth[g].perms = f.old => s.d.auth[g].perms = f.perms
                     /\ s.d.auth[g].name \in {NoName, f.name, u.d.auth[g].name}
                     /\ \A h \in 1..Len(u.d.names) : h # g => s.d.auth[h] = u.d.auth[h]
                     /\ s.d.roles \subseteq u.d.roles
                     /\ \A r \in u.d.roles : r \notin s.d.roles => r[2] = g /\ f.perms = {}
          /\ ~ s.ok => \/ u.d.auth[g].perms # f.old
                       \/ \E h \in 1..Len(u.d.names) : h # g /\ u.d.auth[h].name = f.name
      BY <1>1, <1>2, UpdateIs
    <2> HIDE DEF s
    <2>2. Len(u.d.names) = Len(t.d.names) /\ u.d.auth[g] = t.d.auth[g] /\ g = f.group
      BY <1>1, <1>2, <1>5, <1>8
    <2>3. ~ s.ok => ~ Fresh(t.d, f) \/ Clash(t.d, f)
      BY <1>1, <1>8, <2>1, <2>2 DEF Clash, Fresh, g
    <2>4. Fresh(t.d, f) => u.d.auth[g].perms = f.old
      BY <1>8, <2>2 DEF Fresh
    <2>5. SaveForm(t, f) = s
      BY <1>5, <1>8 DEF s
    <2> QED
      BY <1>1, <1>2, <1>8, <2>1, <2>2, <2>3, <2>4, <2>5 DEF g
  <1> QED
    BY <1>6, <1>7, <1>8

-----------------------------------------------------------------------------
(* All the forms of a transaction *)

\* What the two views post: forms for new groups only, or for distinct groups.
BatchFor(d, forms) ==
  /\ forms \in Seq(Form)
  /\ \A i \in 1..Len(forms) : FormOK(d, forms[i])
  /\ \/ \A i \in 1..Len(forms) : forms[i].group = New
     \/ \A i \in 1..Len(forms) :
          forms[i].group # New /\ \A j \in 1..Len(forms) : i # j => forms[i].group # forms[j].group

Batch(forms) == BatchFor(db, forms)

\* The group of form i.
Target(forms, i) == IF forms[i].group = New THEN Len(db.names) + i ELSE forms[i].group

\* The transaction t after i forms has done what these ask for, and only that.
DoneUpto(forms, i, t) ==
  /\ Open(t)
  /\ Len(t.d.names) = Len(db.names) +
       (IF \A k \in 1..Len(forms) : forms[k].group = New THEN i ELSE 0)
  /\ \A k \in 1..i :
       LET g == Target(forms, k)
       IN  /\ t.d.names[g] = forms[k].name
           /\ Fresh(db, forms[k]) => t.d.auth[g].perms = forms[k].perms
           /\ \/ t.d.auth[g].name \in {NoName, forms[k].name}
              \/ forms[k].group # New /\ t.d.auth[g].name = db.auth[g].name
  /\ \A h \in 1..Len(db.names) : (\A k \in 1..i : forms[k].group # h) =>
       t.d.names[h] = db.names[h] /\ t.d.auth[h] = db.auth[h]
  /\ t.d.roles \subseteq db.roles
  /\ \A r \in db.roles : r \notin t.d.roles =>
       \E k \in 1..i : forms[k].group = r[2] /\ forms[k].perms = {}

LEMMA BatchFacts ==
  ASSUME NEW forms, Batch(forms), DbOK(db), NEW i \in 1..Len(forms)
  PROVE  /\ Len(forms) \in Nat /\ Len(db.names) \in Nat /\ forms[i] \in Form
         /\ forms[i].group = New => \A k \in 1..Len(forms) : forms[k].group = New
         /\ forms[i].group # New =>
              /\ forms[i].group \in 1..Len(db.names)
              /\ \A k \in 1..Len(forms) : forms[k].group # New /\ (k # i => forms[k].group # forms[i].group)
  <1>1. Len(forms) \in Nat /\ Len(db.names) \in Nat
    BY DEF Batch, BatchFor, DbOK, Database
  <1>2. FormOK(db, forms[i])
    BY DEF Batch, BatchFor
  <1>3. forms[i] \in Form /\ (forms[i].group # New => forms[i].group \in 1..Len(db.names))
    BY <1>2 DEF FormOK
  <1> QED
    BY <1>1, <1>3 DEF Batch, BatchFor

\* One more form, when nothing has raised yet.
LEMMA OneMoreForm ==
  ASSUME NEW forms, Batch(forms), DbOK(db), NEW i \in 1..Len(forms),
         NEW t, DoneUpto(forms, i - 1, t)
  PROVE  LET s == SaveForm(t, forms[i])
         IN  /\ s.ok \in BOOLEAN
             /\ s.ok => DoneUpto(forms, i, s)
             /\ ~ s.ok => ~ Fresh(db, forms[i]) \/ Clash(t.d, forms[i])
  <1> DEFINE f == forms[i]
             s == SaveForm(t, f)
             g == Written(t.d, f)
             new == \A k \in 1..Len(forms) : forms[k].group = New
  <1>1. /\ Len(forms) \in Nat /\ Len(db.names) \in Nat /\ f \in Form
        /\ f.group = New => new
        /\ f.group # New =>
             /\ f.group \in 1..Len(db.names)
             /\ \A k \in 1..Len(forms) : forms[k].group # New /\ (k # i => forms[k].group # f.group)
    BY BatchFacts
  <1>2. /\ f.group = New => Len(t.d.names) = Len(db.names) + i - 1
        /\ f.group # New => Len(t.d.names) = Len(db.names)
    <2>1. /\ new => Len(t.d.names) = Len(db.names) + (i - 1)
          /\ ~ new => Len(t.d.names) = Len(db.names) + 0
      BY DEF DoneUpto
    <2>2. f.group # New => ~ new
      OBVIOUS
    <2>3. i \in Int /\ Len(db.names) \in Int
      BY <1>1
    <2>4. f.group = New => new
      BY <1>1
    <2> HIDE DEF new
    <2> QED
      BY <2>1, <2>2, <2>3, <2>4
  <1>3. Open(t) /\ FormOK(t.d, f)
    <2>1. Open(t)
      BY DEF DoneUpto
    <2>2. FormOK(db, f)
      BY DEF Batch, BatchFor
    <2> QED
      BY <1>1, <1>2, <2>1, <2>2 DEF FormOK
  <1>4. g = Target(forms, i) /\ (f.group # New => g = f.group)
    <2>1. CASE f.group = New
      <3>1. Len(t.d.names) + 1 = Len(db.names) + i
        <4>1. i \in Int /\ Len(db.names) \in Int
          BY <1>1
        <4> QED
          BY <1>2, <2>1, <4>1
      <3> QED
        BY <2>1, <3>1 DEF Written, Target
    <2>2. CASE f.group # New
      BY <2>2 DEF Written, Target
    <2> QED
      BY <2>1, <2>2
  <1>5. ASSUME f.group # New
        PROVE  g = f.group /\ t.d.auth[g] = db.auth[g]
    <2>1. \A k \in 1..(i - 1) : forms[k].group # f.group
      BY <1>1, <1>5
    <2>2. t.d.auth[f.group] = db.auth[f.group]
      BY <1>1, <1>5, <2>1 DEF DoneUpto
    <2> QED
      BY <1>4, <1>5, <2>2
  <1>6. Fresh(db, f) => Fresh(t.d, f)
    BY <1>5 DEF Fresh
  <1>7. ASSUME NEW k \in 1..(i - 1)
        PROVE  Target(forms, k) \in 1..Len(t.d.names) /\ Target(forms, k) # g
    <2>1. k \in 1..Len(forms) /\ k # i
      BY <1>1
    <2>2. CASE f.group = New
      BY <1>1, <1>2, <1>4, <2>1, <2>2 DEF Target
    <2>3. CASE f.group # New
      <3>1. forms[k].group # New /\ forms[k].group # f.group
        BY <1>1, <2>1, <2>3
      <3>2. forms[k].group \in 1..Len(db.names)
        BY <2>1, <3>1, BatchFacts
      <3> QED
        BY <1>1, <1>2, <1>4, <2>3, <3>1, <3>2 DEF Target
    <2> QED
      BY <2>2, <2>3
  <1>8. /\ s.ok \in BOOLEAN
        /\ s.ok => /\ Open(s)
                   /\ Len(s.d.names) = Len(t.d.names) + (IF f.group = New THEN 1 ELSE 0)
                   /\ s.d.names[g] = f.name
                   /\ Fresh(t.d, f) => s.d.auth[g].perms = f.perms
                   /\ \/ s.d.auth[g].name \in {NoName, f.name}
                      \/ f.group # New /\ s.d.auth[g].name = t.d.auth[g].name
                   /\ \A h \in 1..Len(t.d.names) : h # g =>
                        s.d.names[h] = t.d.names[h] /\ s.d.auth[h] = t.d.auth[h]
                   /\ s.d.roles \subseteq t.d.roles
                   /\ \A r \in t.d.roles : r \notin s.d.roles =>
                        f.group # New /\ r[2] = f.group /\ f.perms = {}
        /\ ~ s.ok => ~ Fresh(t.d, f) \/ Clash(t.d, f)
    BY <1>3, SaveFormIs
  <1> HIDE DEF s, g
  <1>9. ASSUME s.ok PROVE DoneUpto(forms, i, s)
    <2>1. Len(s.d.names) = Len(db.names) + (IF new THEN i ELSE 0)
      <3>1. (f.group # New => ~ new) /\ (f.group = New => new)
        BY <1>1
      <3>2. i \in Int /\ Len(db.names) \in Int
        BY <1>1
      <3>3. /\ f.group = New => Len(s.d.names) = Len(t.d.names) + 1
            /\ f.group # New => Len(s.d.names) = Len(t.d.names) + 0
        BY <1>8, <1>9
      <3> HIDE DEF new, f
      <3>4. /\ f.group = New => Len(s.d.names) = Len(db.names) + i
            /\ f.group # New => Len(s.d.names) = Len(db.names) + 0
        BY <1>2, <3>2, <3>3
      <3> QED
        BY <3>1, <3>4
    <2>2. ASSUME NEW k \in 1..i
          PROVE  LET h == Target(forms, k)
                 IN  /\ s.d.names[h] = forms[k].name
                     /\ Fresh(db, forms[k]) => s.d.auth[h].perms = forms[k].perms
                     /\ \/ s.d.auth[h].name \in {NoName, forms[k].name}
                        \/ forms[k].group # New /\ s.d.auth[h].name = db.auth[h].name
      <3>1. CASE k = i
        BY <1>4, <1>5, <1>6, <1>8, <1>9, <3>1
      <3>2. CASE k # i
        <4> DEFINE h == Target(forms, k)
        <4>1. k \in 1..(i - 1)
          BY <3>2
        <4>2. h \in 1..Len(t.d.names) /\ h # g
          BY <1>7, <4>1
        <4>3. s.d.names[h] = t.d.names[h] /\ s.d.auth[h] = t.d.auth[h]
          BY <1>8, <1>9, <4>2
        <4>4. /\ t.d.names[h] = forms[k].name
              /\ Fresh(db, forms[k]) => t.d.auth[h].perms = forms[k].perms
              /\ \/ t.d.auth[h].name \in {NoName, forms[k].name}
                 \/ forms[k].group # New /\ t.d.auth[h].name = db.auth[h].name
          BY <4>1 DEF DoneUpto
        <4> QED
          BY <4>3, <4>4
      <3> QED
        BY <3>1, <3>2
    <2>3. ASSUME NEW h \in 1..Len(db.names), \A k \in 1..i : forms[k].group # h
          PROVE  s.d.names[h] = db.names[h] /\ s.d.auth[h] = db.auth[h]
      <3>1. t.d.names[h] = db.names[h] /\ t.d.auth[h] = db.auth[h]
        BY <2>3 DEF DoneUpto
      <3>2. h # g /\ h \in 1..Len(t.d.names)
        BY <1>1, <1>2, <1>4, <2>3 DEF Target
      <3> QED
        BY <1>8, <1>9, <3>1, <3>2
    <2>4. s.d.roles \subseteq db.roles
      BY <1>8, <1>9 DEF DoneUpto
    <2>5. ASSUME NEW r \in db.roles, r \notin s.d.roles
          PROVE  \E k \in 1..i : forms[k].group = r[2] /\ forms[k].perms = {}
      <3>1. CASE r \in t.d.roles
        BY <1>8, <1>9, <2>5, <3>1
      <3>2. CASE r \notin t.d.roles
        <4>1. PICK k \in 1..(i - 1) : forms[k].group = r[2] /\ forms[k].perms = {}
          BY <3>2 DEF DoneUpto
        <4> QED
          BY <4>1
      <3> QED
        BY <3>1, <3>2
    <2> QED
      BY <1>8, <1>9, <2>1, <2>2, <2>3, <2>4, <2>5 DEF DoneUpto
  <1> QED
    BY <1>6, <1>8, <1>9 DEF s

\* A transaction that has not raised has done all its forms.
LEMMA SavedDoes ==
  ASSUME NEW forms, Batch(forms), DbOK(db)
  PROVE  \A i \in 0..Len(forms) :
           /\ Saved(forms)[i].ok \in BOOLEAN
           /\ Saved(forms)[i].ok => DoneUpto(forms, i, Saved(forms)[i])
  <1> DEFINE P(i) == /\ Saved(forms)[i].ok \in BOOLEAN
                     /\ Saved(forms)[i].ok => DoneUpto(forms, i, Saved(forms)[i])
             S == {i \in 0..Len(forms) : P(i)}
  <1>1. Len(forms) \in Nat
    BY DEF Batch, BatchFor
  <1>2. /\ Saved(forms)[0] = Start
        /\ \A i \in 1..Len(forms) : Saved(forms)[i] = SaveForm(Saved(forms)[i - 1], forms[i])
    BY <1>1, SavedIs
  <1>3. P(0)
    <2>1. Start.d = db /\ Start.ok = TRUE /\ DOMAIN Start = {"d", "ok"}
      BY DEF Start
    <2>2. Open(Start)
      BY <2>1 DEF Open
    <2>3. Len(db.names) \in Nat
      BY DEF DbOK, Database
    <2>4. Len(Start.d.names) = Len(db.names) +
            (IF \A k \in 1..Len(forms) : forms[k].group = New THEN 0 ELSE 0)
      BY <2>1, <2>3
    <2>5. DoneUpto(forms, 0, Start)
      BY <2>1, <2>2, <2>4 DEF DoneUpto
    <2> QED
      BY <1>2, <2>1, <2>5
  <1>4. ASSUME NEW i \in 1..Len(forms), P(i - 1) PROVE P(i)
    <2> DEFINE t == Saved(forms)[i - 1]
    <2>1. Saved(forms)[i] = SaveForm(t, forms[i])
      BY <1>2
    <2>2. CASE t.ok
      <3>1. DoneUpto(forms, i - 1, t)
        BY <1>4, <2>2
      <3> HIDE DEF t
      <3> QED
        BY <2>1, <3>1, OneMoreForm
    <2>3. CASE ~ t.ok
      <3>1. SaveForm(t, forms[i]) = t
        BY <2>3 DEF SaveForm
      <3> QED
        BY <1>4, <2>1, <2>3, <3>1
    <2> QED
      BY <2>2, <2>3
  <1> HIDE DEF P
  <1>5. 0..Len(forms) \subseteq S
    <2>1. 0 \in S
      BY <1>1, <1>3
    <2>2. ASSUME NEW i \in 1..Len(forms), i - 1 \in S PROVE i \in S
      BY <1>1, <1>4, <2>2
    <2> HIDE DEF S
    <2> QED
      BY <1>1, <2>1, <2>2, NatSetInduction
  <1> QED
    BY <1>5 DEF P

\* Every mirror has the name of its group.
NoneRenamed == \A g \in 1..Len(db.names) : Mirrored(db, g) => db.auth[g].name = db.names[g]

\* Forms about what the groups have, that rename none of them and take no name
\* twice, are all saved.
LEMMA DistinctNamesSave ==
  ASSUME NEW forms, Batch(forms), DbOK(db), NoneRenamed,
         \A i \in 1..Len(forms) : Fresh(db, forms[i]),
         \A i \in 1..Len(forms) : forms[i].group # New => forms[i].name = db.names[forms[i].group],
         \A i, j \in 1..Len(forms) : i # j => forms[i].name # forms[j].name,
         \A i \in 1..Len(forms), g \in 1..Len(db.names) :
           (\A j \in 1..Len(forms) : forms[j].group # g) => forms[i].name # db.names[g]
  PROVE  SaveAll(forms).ok
  <1> DEFINE P(i) == Saved(forms)[i].ok
             S == {i \in 0..Len(forms) : P(i)}
  <1>1. Len(forms) \in Nat /\ Len(db.names) \in Nat
    BY DEF Batch, BatchFor, DbOK, Database
  <1>2. /\ Saved(forms)[0] = Start
        /\ \A i \in 1..Len(forms) : Saved(forms)[i] = SaveForm(Saved(forms)[i - 1], forms[i])
    BY <1>1, SavedIs
  <1>3. P(0)
    BY <1>2 DEF Start
  <1>4. ASSUME NEW i \in 1..Len(forms), P(i - 1) PROVE P(i)
    <2> DEFINE t == Saved(forms)[i - 1]
               s == SaveForm(t, forms[i])
               f == forms[i]
    <2>1. DoneUpto(forms, i - 1, t)
      BY <1>1, <1>4, SavedDoes
    <2>2. Saved(forms)[i] = s
      BY <1>2
    <2> HIDE DEF t
    <2>3. s.ok \in BOOLEAN /\ (~ s.ok => Clash(t.d, f))
      BY <2>1, OneMoreForm
    <2>4. f \in Form /\ f.name \in Names /\ f.name # NoName
      BY BatchFacts, GroupsAssumption DEF Form
    <2>5. ASSUME Clash(t.d, f) PROVE FALSE
      <3>1. PICK h \in 1..Len(t.d.names) : h # Written(t.d, f) /\ t.d.auth[h].name = f.name
        BY <2>5 DEF Clash
      <3>2. CASE \E k \in 1..(i - 1) : Target(forms, k) = h
        <4>1. PICK k \in 1..(i - 1) : Target(forms, k) = h
          BY <3>2
        <4>2. k \in 1..Len(forms) /\ k # i
          BY <1>1
        <4>3. \/ t.d.auth[h].name \in {NoName, forms[k].name}
              \/ forms[k].group # New /\ t.d.auth[h].name = db.auth[h].name
          BY <2>1, <4>1 DEF DoneUpto
        <4>4. t.d.auth[h].name # forms[k].name
          BY <3>1, <4>2
        <4>5. forms[k].group # New /\ db.auth[h].name = f.name
          BY <2>4, <3>1, <4>3, <4>4
        <4>6. h = forms[k].group /\ h \in 1..Len(db.names)
          BY <4>1, <4>2, <4>5, BatchFacts DEF Target
        <4>7. Mirrored(db, h)
          BY <2>4, <4>5, <4>6, MirrorFacts
        <4>8. f.name = forms[k].name
          BY <4>2, <4>5, <4>6, <4>7 DEF NoneRenamed
        <4> QED
          BY <4>2, <4>8
      <3>3. CASE \A k \in 1..(i - 1) : Target(forms, k) # h
        <4>1. h \in 1..Len(db.names) /\ \A k \in 1..(i - 1) : forms[k].group # h
          <5>1. CASE f.group = New
            <6>1. \A k \in 1..Len(forms) : forms[k].group = New
              BY <5>1, BatchFacts
            <6>2. Len(t.d.names) = Len(db.names) + (i - 1)
              BY <2>1, <6>1 DEF DoneUpto
            <6>3. \A k \in 1..(i - 1) : Len(db.names) + k # h
              BY <1>1, <3>3, <6>1 DEF Target
            <6>4. h \in 1..Len(db.names)
              <7> SUFFICES ASSUME h > Len(db.names) PROVE FALSE
                BY <1>1, <6>2
              <7> DEFINE k == h - Len(db.names)
              <7>1. k \in 1..(i - 1) /\ Len(db.names) + k = h
                BY <1>1, <6>2
              <7> HIDE DEF k
              <7> QED
                BY <6>3, <7>1
            <6> QED
              BY <1>1, <6>1, <6>4 DEF New
          <5>2. CASE f.group # New
            <6>1. \A k \in 1..Len(forms) : forms[k].group # New
              BY <5>2, BatchFacts
            <6>2. ~ \A k \in 1..Len(forms) : forms[k].group = New
              BY <5>2
            <6>3. Len(t.d.names) = Len(db.names) + 0
              BY <2>1, <6>2 DEF DoneUpto
            <6> QED
              BY <1>1, <3>3, <6>1, <6>3 DEF Target
          <5> QED
            BY <5>1, <5>2
        <4>2. t.d.auth[h] = db.auth[h]
          BY <2>1, <4>1 DEF DoneUpto
        <4>3. Mirrored(db, h)
          BY <2>4, <3>1, <4>1, <4>2, MirrorFacts
        <4>4. db.names[h] = f.name
          BY <3>1, <4>1, <4>2, <4>3 DEF NoneRenamed
        <4>5. PICK j \in 1..Len(forms) : forms[j].group = h
          BY <4>1, <4>4
        <4>6. h # New
          BY <4>1 DEF New
        <4>7. forms[j].name = f.name
          BY <4>4, <4>5, <4>6
        <4>8. j = i
          BY <4>7
        <4> QED
          BY <3>1, <4>5, <4>6, <4>8 DEF Written
      <3> QED
        BY <3>2, <3>3
    <2> QED
      BY <2>2, <2>3, <2>5
  <1> HIDE DEF P
  <1>5. 0..Len(forms) \subseteq S
    <2>1. 0 \in S
      BY <1>1, <1>3
    <2>2. ASSUME NEW i \in 1..Len(forms), i - 1 \in S PROVE i \in S
      BY <1>1, <1>4, <2>2
    <2> HIDE DEF S
    <2> QED
      BY <1>1, <2>1, <2>2, NatSetInduction
  <1>6. P(Len(forms))
    BY <1>1, <1>5
  <1> QED
    BY <1>6 DEF P, SaveAll

-----------------------------------------------------------------------------
(* The invariant *)

\* What a worker has posted; unless another transaction came between, its forms
\* are about what the groups have.
ReqOK(w) ==
  Busy(w) =>
    /\ DOMAIN req[w] = {"phase", "forms", "stale"} /\ req[w].phase = "posted"
    /\ Batch(req[w].forms)
    /\ req[w].stale \in BOOLEAN
    /\ ~ req[w].stale => \A i \in 1..Len(req[w].forms) : Fresh(db, req[w].forms[i])

GroupsInv ==
  /\ DbOK(db)
  /\ Len(db.names) <= MaxGroups
  /\ want \in Seq(PermissionSets) /\ Len(want) = Len(db.names)
  /\ DOMAIN req = Workers
  /\ \A w \in Workers : ReqOK(w)

\* Only an account that was active is in a request.
AccessInv ==
  /\ DOMAIN account \subseteq Accounts
  /\ \A r \in db.roles : r[1] \in DOMAIN account
  /\ web # NoRequest =>
       /\ DOMAIN web = {"phase", "user", "beganActive"}
       /\ web.phase \in {"loaded", "allowed", "denied"}
       /\ web.beganActive \in BOOLEAN
       /\ web.user # Anonymous => web.beganActive

AInv == GroupsInv /\ AccessInv

LEMMA BatchGrows ==
  ASSUME NEW d, NEW e, Len(d.names) \in Nat, Len(e.names) \in Nat,
         Len(d.names) <= Len(e.names), NEW forms, BatchFor(d, forms)
  PROVE  BatchFor(e, forms)
  BY DEF BatchFor, FormOK

LEMMA InvInit == Init => AInv
  <1> SUFFICES ASSUME Init PROVE AInv
    OBVIOUS
  <1> USE DEF Init, InitGroups
  <1>1. db.names = <<>> /\ db.auth = <<>> /\ db.roles = {}
    BY DEF InitDb
  <1>2. DbOK(db)
    <2>1. <<>> \in Seq(Names) /\ <<>> \in Seq(Mirror) /\ {} \in SUBSET (Accounts \X Nat)
      OBVIOUS
    <2>2. db = [names |-> <<>>, auth |-> <<>>, roles |-> {}]
      BY DEF InitDb
    <2>3. db \in Database
      BY <2>1, <2>2 DEF Database
    <2> QED
      BY <1>1, <2>3 DEF DbOK
  <1>3. want \in Seq(PermissionSets) /\ Len(want) = Len(db.names) /\ Len(db.names) <= MaxGroups
    BY <1>1, GroupsAssumption
  <1>4. \A w \in Workers : ReqOK(w)
    BY DEF ReqOK, Busy
  <1>5. AccessInv
    BY <1>1 DEF AccessInv
  <1> QED
    BY <1>2, <1>3, <1>4, <1>5 DEF AInv, GroupsInv

\* A worker that posts forms about what the groups have.
LEMMA BeginKeeps ==
  ASSUME GroupsInv, NEW w \in Workers, NEW forms, Begin(w, forms), UNCHANGED <<db, want>>,
         BatchFor(db, forms), \A i \in 1..Len(forms) : Fresh(db, forms[i])
  PROVE  GroupsInv'
  <1>1. DOMAIN req' = Workers /\ \A v \in Workers : v # w => req'[v] = req[v]
    BY DEF Begin, GroupsInv
  <1>2. /\ req'[w].phase = "posted" /\ req'[w].forms = forms /\ req'[w].stale = FALSE
        /\ DOMAIN req'[w] = {"phase", "forms", "stale"}
    BY DEF Begin, GroupsInv
  <1>3. ReqOK(w)'
    BY <1>2 DEF ReqOK, Batch
  <1>4. ASSUME NEW v \in Workers, v # w PROVE ReqOK(v)'
    <2>1. ReqOK(v) /\ req'[v] = req[v]
      BY <1>1, <1>4 DEF GroupsInv
    <2> QED
      BY <2>1 DEF ReqOK, Busy, Batch
  <1> QED
    BY <1>1, <1>3, <1>4 DEF GroupsInv

LEMMA PostCreateKeeps ==
  ASSUME GroupsInv, NEW w \in Workers, PostCreate(w)
  PROVE  GroupsInv'
  <1>1. PICK n \in 1..(MaxGroups - Len(db.names)) :
          \E forms \in [1..n -> [group : {New}, name : Names, perms : PermissionSets, old : {{}}]] :
            Begin(w, forms)
    BY DEF PostCreate
  <1>2. PICK forms \in [1..n -> [group : {New}, name : Names, perms : PermissionSets, old : {{}}]] :
          Begin(w, forms)
    BY <1>1
  <1>3. n \in Nat
    BY GroupsAssumption DEF GroupsInv, DbOK, Database
  <1>4. \A i \in 1..n : forms[i] \in Form /\ forms[i].group = New /\ forms[i].old = {}
    <2> SUFFICES ASSUME NEW i \in 1..n
                 PROVE  forms[i] \in Form /\ forms[i].group = New /\ forms[i].old = {}
      OBVIOUS
    <2>1. forms[i] \in [group : {New}, name : Names, perms : PermissionSets, old : {{}}]
      OBVIOUS
    <2>2. New \in Nat /\ {} \in PermissionSets
      BY GroupsAssumption DEF New
    <2> QED
      BY <2>1, <2>2 DEF Form
  <1>5. forms \in Seq(Form) /\ Len(forms) = n
    BY <1>3, <1>4
  <1>6. BatchFor(db, forms) /\ \A i \in 1..Len(forms) : Fresh(db, forms[i])
    BY <1>4, <1>5 DEF BatchFor, FormOK, Fresh
  <1>7. UNCHANGED <<db, want>>
    BY DEF PostCreate
  <1> QED
    BY <1>2, <1>6, <1>7, BeginKeeps

LEMMA PostEditKeeps ==
  ASSUME GroupsInv, NEW w \in Workers, PostEdit(w)
  PROVE  GroupsInv'
  <1>1. PICK S \in SUBSET DOMAIN db.names :
          \E form \in [S -> Names \X PermissionSets], order \in SetToSeqs(S) :
            Begin(w, [i \in DOMAIN order |->
                        [group |-> order[i], name |-> form[order[i]][1],
                         perms |-> form[order[i]][2], old |-> db.auth[order[i]].perms]])
    BY DEF PostEdit
  <1>2. PICK form \in [S -> Names \X PermissionSets], order \in SetToSeqs(S) :
          Begin(w, [i \in DOMAIN order |->
                      [group |-> order[i], name |-> form[order[i]][1],
                       perms |-> form[order[i]][2], old |-> db.auth[order[i]].perms]])
    BY <1>1
  <1> DEFINE forms == [i \in DOMAIN order |->
                         [group |-> order[i], name |-> form[order[i]][1],
                          perms |-> form[order[i]][2], old |-> db.auth[order[i]].perms]]
             n == Cardinality(S)
  <1>3. DbOK(db) /\ Len(db.names) \in Nat /\ S \subseteq 1..Len(db.names)
    BY DEF GroupsInv, DbOK, Database
  <1>4. n \in Nat
    <2>1. IsFiniteSet(1..Len(db.names))
      BY <1>3, FS_Interval
    <2>2. IsFiniteSet(S)
      BY <1>3, <2>1, FS_Subset
    <2> QED
      BY <2>2, FS_CardinalityType
  <1>5. order \in [1..n -> S] /\ \A i, j \in 1..n : i # j => order[i] # order[j]
    BY DEF SetToSeqs
  <1>6. ASSUME NEW i \in 1..n
        PROVE  /\ forms[i].group = order[i] /\ forms[i] \in Form
               /\ forms[i].group # New /\ forms[i].group \in 1..Len(db.names)
               /\ forms[i].old = db.auth[order[i]].perms
    <2>1. order[i] \in S /\ order[i] \in 1..Len(db.names)
      BY <1>3, <1>5
    <2>2. db.auth[order[i]].perms \in PermissionSets
      BY <1>3, <2>1, MirrorFacts
    <2>3. form[order[i]] \in Names \X PermissionSets
      BY <2>1
    <2>4. forms[i] = [group |-> order[i], name |-> form[order[i]][1],
                      perms |-> form[order[i]][2], old |-> db.auth[order[i]].perms]
      BY <1>5
    <2> HIDE DEF forms
    <2>5. forms[i] \in Form
      BY <2>1, <2>2, <2>3, <2>4 DEF Form
    <2> QED
      BY <1>3, <2>1, <2>4, <2>5 DEF New
  <1>7. DOMAIN forms = 1..n /\ forms = [i \in 1..n |-> forms[i]]
    BY <1>5
  <1> HIDE DEF forms, n
  <1>8. forms \in Seq(Form) /\ Len(forms) = n
    <2>1. forms \in [1..n -> Form]
      BY <1>6, <1>7
    <2> QED
      BY <1>4, <2>1
  <1>9. BatchFor(db, forms) /\ \A i \in 1..Len(forms) : Fresh(db, forms[i])
    BY <1>5, <1>6, <1>8 DEF BatchFor, FormOK, Fresh
  <1>10. UNCHANGED <<db, want>> /\ Begin(w, forms)
    BY <1>2 DEF PostEdit, forms
  <1> QED
    BY <1>9, <1>10, BeginKeeps

\* The end of a request leaves those of the other workers, but for their being overtaken.
LEMMA EndKeeps ==
  ASSUME GroupsInv, NEW w \in Workers, End(w), DbOK(db'), Len(db.names) <= Len(db'.names)
  PROVE  DOMAIN req' = Workers /\ \A v \in Workers : ReqOK(v)'
  <1>1. /\ DOMAIN req' = Workers /\ req'[w] = Idle
        /\ \A v \in Workers : v # w => req'[v] = IF Busy(v) /\ db' # db
                                                 THEN [req[v] EXCEPT !.stale = TRUE] ELSE req[v]
    BY DEF End
  <1>2. Len(db.names) \in Nat /\ Len(db'.names) \in Nat
    BY DEF GroupsInv, DbOK, Database
  <1>3. ReqOK(w)'
    BY <1>1 DEF ReqOK, Busy
  <1>4. ASSUME NEW v \in Workers, v # w PROVE ReqOK(v)'
    <2>1. ReqOK(v)
      BY DEF GroupsInv
    <2>2. CASE ~ Busy(v)
      BY <1>1, <1>4, <2>2 DEF ReqOK, Busy
    <2>3. CASE Busy(v) /\ db' = db
      <3>1. req'[v] = req[v]
        BY <1>1, <1>4, <2>3
      <3> QED
        BY <2>1, <2>3, <3>1 DEF ReqOK, Busy, Batch
    <2>4. CASE Busy(v) /\ db' # db
      <3>1. req'[v] = [req[v] EXCEPT !.stale = TRUE]
        BY <1>1, <1>4, <2>4
      <3>2. DOMAIN req[v] = {"phase", "forms", "stale"}
        BY <2>1, <2>4 DEF ReqOK
      <3>3. /\ req'[v].forms = req[v].forms /\ req'[v].phase = req[v].phase
            /\ req'[v].stale = TRUE /\ DOMAIN req'[v] = {"phase", "forms", "stale"}
        BY <3>1, <3>2
      <3>4. Batch(req[v].forms)
        BY <2>1, <2>4 DEF ReqOK
      <3>5. BatchFor(db', req[v].forms)
        BY <1>2, <3>4, BatchGrows DEF Batch
      <3>6. Batch(req[v].forms)'
        BY <3>3, <3>5 DEF Batch
      <3> QED
        BY <2>1, <2>4, <3>3, <3>6 DEF ReqOK
    <2> QED
      BY <2>2, <2>3, <2>4
  <1> QED
    BY <1>1, <1>3, <1>4

\* What a committed request does to a group: what its form asks for, or nothing.
LEMMA CommitIs ==
  ASSUME GroupsInv, NEW w \in Workers, Commit(w)
  PROVE  LET forms == req[w].forms
         IN  /\ Busy(w) /\ Batch(forms)
             /\ DoneUpto(forms, Len(forms), SaveAll(forms)) /\ db' = SaveAll(forms).d
             /\ DbOK(db') /\ Len(db'.names) \in Nat
             /\ Len(db.names) <= Len(db'.names) /\ Len(db'.names) <= MaxGroups
             /\ want' = [g \in 1..Len(db'.names) |-> want'[g]]
             /\ \A g \in 1..Len(db'.names) :
                  \/ \E i \in 1..Len(forms) : Target(forms, i) = g /\ want'[g] = forms[i].perms
                  \/ /\ g \in 1..Len(db.names) /\ \A i \in 1..Len(forms) : forms[i].group # g
                     /\ want'[g] = want[g]
  <1> DEFINE forms == req[w].forms
             t == SaveAll(forms)
             of(g) == {i \in DOMAIN forms : IF g > Len(db.names) THEN i = g - Len(db.names)
                                            ELSE forms[i].group = g}
  <1>1. Busy(w) /\ t.ok /\ Len(t.d.names) <= MaxGroups /\ db' = t.d
    BY DEF Commit
  <1>2. want' = [g \in DOMAIN t.d.names |->
                   IF of(g) = {} THEN want[g] ELSE forms[CHOOSE i \in of(g) : TRUE].perms]
    BY DEF Commit
  <1>3. Batch(forms) /\ DbOK(db)
    BY <1>1 DEF GroupsInv, ReqOK
  <1> HIDE DEF forms
  <1>4. Len(forms) \in Nat /\ DOMAIN forms = 1..Len(forms) /\ Len(db.names) \in Nat
    BY <1>3 DEF Batch, BatchFor, DbOK, Database
  <1>5. DoneUpto(forms, Len(forms), t)
    BY <1>1, <1>3, <1>4, SavedDoes DEF SaveAll
  <1>6. DbOK(t.d) /\ Len(t.d.names) \in Nat /\ DOMAIN t.d.names = 1..Len(t.d.names)
    <2> HIDE DEF t
    <2>1. DbOK(t.d)
      BY <1>5 DEF DoneUpto, Open
    <2>2. t.d.names \in Seq(Names)
      BY <2>1 DEF DbOK, Database
    <2> QED
      BY <2>1, <2>2
  <1> HIDE DEF t
  <1>7. \/ /\ \A k \in 1..Len(forms) : forms[k].group = New
           /\ Len(t.d.names) = Len(db.names) + Len(forms)
        \/ /\ \A k \in 1..Len(forms) : forms[k].group # New
           /\ Len(t.d.names) = Len(db.names)
    <2>1. CASE \A k \in 1..Len(forms) : forms[k].group = New
      BY <1>5, <2>1 DEF DoneUpto
    <2>2. CASE ~ \A k \in 1..Len(forms) : forms[k].group = New
      <3>1. Len(t.d.names) = Len(db.names) + 0
        BY <1>5, <2>2 DEF DoneUpto
      <3> QED
        BY <1>3, <1>4, <2>2, <3>1 DEF Batch, BatchFor
    <2> QED
      BY <2>1, <2>2
  <1>8. ASSUME NEW g \in 1..Len(t.d.names)
        PROVE  \/ \E i \in 1..Len(forms) : Target(forms, i) = g /\ want'[g] = forms[i].perms
               \/ /\ g \in 1..Len(db.names) /\ \A i \in 1..Len(forms) : forms[i].group # g
                  /\ want'[g] = want[g]
    <2>1. want'[g] = IF of(g) = {} THEN want[g] ELSE forms[CHOOSE i \in of(g) : TRUE].perms
      BY <1>2, <1>6
    <2>2. CASE of(g) = {}
      <3>1. g <= Len(db.names)
        <4> SUFFICES ASSUME g > Len(db.names) PROVE FALSE
          BY <1>4, <1>6
        <4>1. Len(t.d.names) = Len(db.names) + Len(forms)
          BY <1>4, <1>7
        <4>2. g - Len(db.names) \in 1..Len(forms)
          BY <1>4, <4>1
        <4>3. g - Len(db.names) \in of(g)
          BY <1>4, <4>2
        <4> QED
          BY <2>2, <4>3
      <3>2. \A i \in 1..Len(forms) : forms[i].group # g
        BY <1>4, <2>2, <3>1
      <3>3. want'[g] = want[g]
        BY <2>1, <2>2
      <3> HIDE DEF of
      <3> QED
        BY <1>4, <3>1, <3>2, <3>3
    <2>3. CASE of(g) # {}
      <3> DEFINE i == CHOOSE k \in of(g) : TRUE
      <3>1. i \in of(g)
        BY <2>3
      <3>2. want'[g] = forms[i].perms
        BY <2>1, <2>3
      <3> HIDE DEF i
      <3>3. i \in 1..Len(forms) /\ (g > Len(db.names) => i = g - Len(db.names))
            /\ (~ (g > Len(db.names)) => forms[i].group = g)
        BY <1>4, <3>1
      <3>4. Target(forms, i) = g
        <4>1. CASE g > Len(db.names)
          <5>1. forms[i].group = New
            BY <1>4, <1>7, <3>3, <4>1
          <5> QED
            BY <1>4, <3>3, <4>1, <5>1 DEF Target
        <4>2. CASE ~ (g > Len(db.names))
          <5>1. forms[i].group = g /\ g # New
            BY <3>3, <4>2 DEF New
          <5> QED
            BY <5>1 DEF Target
        <4> QED
          BY <4>1, <4>2
      <3> QED
        BY <3>2, <3>3, <3>4
    <2> QED
      BY <2>2, <2>3
  <1>9. want' = [g \in 1..Len(t.d.names) |-> want'[g]]
    BY <1>2, <1>6
  <1>10. Len(db.names) <= Len(t.d.names)
    BY <1>4, <1>7
  <1> HIDE DEF of
  <1> QED
    BY <1>1, <1>3, <1>5, <1>6, <1>8, <1>9, <1>10 DEF forms, t

LEMMA CommitKeeps ==
  ASSUME GroupsInv, NEW w \in Workers, Commit(w)
  PROVE  GroupsInv' /\ db'.roles \subseteq db.roles
  <1> DEFINE forms == req[w].forms
  <1>1. /\ Busy(w) /\ Batch(forms)
        /\ DoneUpto(forms, Len(forms), SaveAll(forms)) /\ db' = SaveAll(forms).d
        /\ DbOK(db') /\ Len(db'.names) \in Nat
        /\ Len(db.names) <= Len(db'.names) /\ Len(db'.names) <= MaxGroups
        /\ want' = [g \in 1..Len(db'.names) |-> want'[g]]
        /\ \A g \in 1..Len(db'.names) :
             \/ \E i \in 1..Len(forms) : Target(forms, i) = g /\ want'[g] = forms[i].perms
             \/ /\ g \in 1..Len(db.names) /\ \A i \in 1..Len(forms) : forms[i].group # g
                /\ want'[g] = want[g]
    BY CommitIs
  <1>2. DbOK(db) /\ want \in Seq(PermissionSets) /\ Len(want) = Len(db.names)
    BY DEF GroupsInv
  <1>3. End(w)
    BY DEF Commit
  <1> HIDE DEF forms
  <1>4. \A g \in 1..Len(db'.names) : want'[g] \in PermissionSets
    <2> SUFFICES ASSUME NEW g \in 1..Len(db'.names) PROVE want'[g] \in PermissionSets
      OBVIOUS
    <2>1. CASE \E i \in 1..Len(forms) : want'[g] = forms[i].perms
      BY <1>1, <1>2, <2>1, BatchFacts DEF Form
    <2>2. CASE g \in 1..Len(db.names) /\ want'[g] = want[g]
      BY <1>2, <2>2
    <2> QED
      BY <1>1, <2>1, <2>2
  <1>5. want' \in Seq(PermissionSets) /\ Len(want') = Len(db'.names)
    <2>1. want' \in [1..Len(db'.names) -> PermissionSets]
      BY <1>1, <1>4
    <2> QED
      BY <1>1, <2>1
  <1>6. DOMAIN req' = Workers /\ \A v \in Workers : ReqOK(v)'
    BY <1>1, <1>3, EndKeeps
  <1>7. db'.roles \subseteq db.roles
    BY <1>1 DEF DoneUpto
  <1> QED
    BY <1>1, <1>5, <1>6, <1>7 DEF GroupsInv

LEMMA RefuseKeeps ==
  ASSUME GroupsInv, NEW w \in Workers, Refuse(w)
  PROVE  GroupsInv'
  <1>1. db' = db /\ want' = want /\ End(w)
    BY DEF Refuse
  <1>2. DbOK(db') /\ Len(db.names) <= Len(db'.names)
    BY <1>1 DEF GroupsInv, DbOK, Database
  <1>3. DOMAIN req' = Workers /\ \A v \in Workers : ReqOK(v)'
    BY <1>1, <1>2, EndKeeps
  <1> QED
    BY <1>1, <1>3 DEF GroupsInv

LEMMA ApplyRoleKeeps ==
  ASSUME GroupsInv, NEW a \in Accounts, NEW g, ApplyRole(a, g)
  PROVE  /\ GroupsInv' /\ db.roles \subseteq db'.roles
         /\ \A r \in db'.roles : r \in db.roles \/ r[1] = a
  <1>1. /\ g \in 1..Len(db.names) /\ Mirrored(db, g) /\ Len(db.names) \in Nat
        /\ DbOK(db) /\ db \in Database
    BY DEF ApplyRole, GroupsInv, DbOK, Database
  <1>2. db' = [names |-> db.names, auth |-> db.auth, roles |-> db.roles \cup {<<a, g>>}]
    BY <1>1 DEF ApplyRole, Database
  <1>3. /\ db'.names = db.names /\ db'.auth = db.auth
        /\ db'.roles = db.roles \cup {<<a, g>>} /\ <<a, g>> \in Accounts \X Nat
    BY <1>1, <1>2
  <1>4. db' \in Database
    BY <1>1, <1>2, <1>3 DEF Database
  <1>5. DbOK(db')
    BY <1>1, <1>3, <1>4 DEF DbOK, Mirrored
  <1>6. req' = req /\ want' = want
    BY DEF ApplyRole
  <1>7. ASSUME NEW v \in Workers PROVE ReqOK(v)'
    <2>1. ReqOK(v)
      BY DEF GroupsInv
    <2> QED
      BY <1>3, <1>6, <2>1 DEF ReqOK, Busy, Batch, BatchFor, FormOK, Fresh
  <1>8. GroupsInv'
    BY <1>3, <1>5, <1>6, <1>7 DEF GroupsInv
  <1> QED
    BY <1>3, <1>8

\* A step of the groups that leaves the accounts alone, and no role more than were.
LEMMA AccessKept ==
  ASSUME AccessInv, UNCHANGED <<account, web>>, db'.roles \subseteq db.roles
  PROVE  AccessInv'
  BY DEF AccessInv

LEMMA InvNext == AInv /\ [Next]_vars => AInv'
  <1> SUFFICES ASSUME GroupsInv, AccessInv, [Next]_vars PROVE AInv'
    BY DEF AInv
  <1>1. ASSUME UNCHANGED <<db, req, want>> PROVE GroupsInv'
    BY <1>1 DEF GroupsInv, ReqOK, Busy, Batch
  <1>2. ASSUME NEW w \in Workers, PostCreate(w), UNCHANGED <<account, web>> PROVE AInv'
    <2>1. db' = db
      BY <1>2 DEF PostCreate
    <2> QED
      BY <1>2, <2>1, PostCreateKeeps, AccessKept DEF AInv
  <1>3. ASSUME NEW w \in Workers, PostEdit(w), UNCHANGED <<account, web>> PROVE AInv'
    <2>1. db' = db
      BY <1>3 DEF PostEdit
    <2> QED
      BY <1>3, <2>1, PostEditKeeps, AccessKept DEF AInv
  <1>4. ASSUME NEW w \in Workers, Commit(w), UNCHANGED <<account, web>> PROVE AInv'
    BY <1>4, CommitKeeps, AccessKept DEF AInv
  <1>5. ASSUME NEW w \in Workers, Refuse(w), UNCHANGED <<account, web>> PROVE AInv'
    <2>1. db' = db
      BY <1>5 DEF Refuse
    <2> QED
      BY <1>5, <2>1, RefuseKeeps, AccessKept DEF AInv
  <1>6. ASSUME NEW a \in Accounts, NEW superuser \in BOOLEAN, CreateAccount(a, superuser) PROVE AInv'
    <2>1. /\ DOMAIN account' = DOMAIN account \cup {a} /\ db' = db /\ web' = web
          /\ UNCHANGED <<db, req, want>>
      BY <1>6 DEF CreateAccount
    <2>2. AccessInv'
      BY <2>1 DEF AccessInv
    <2> QED
      BY <1>1, <2>1, <2>2 DEF AInv
  <1>7. ASSUME NEW a \in Accounts, SetActive(a) PROVE AInv'
    <2>1. /\ DOMAIN account' = DOMAIN account /\ db' = db /\ web' = web
          /\ UNCHANGED <<db, req, want>>
      BY <1>7 DEF SetActive
    <2>2. AccessInv'
      BY <2>1 DEF AccessInv
    <2> QED
      BY <1>1, <2>1, <2>2 DEF AInv
  <1>8. ASSUME NEW a \in Accounts, ApplyRoleToAccount(a) PROVE AInv'
    <2>1. PICK g \in DOMAIN db.names : ApplyRole(a, g)
      BY <1>8 DEF ApplyRoleToAccount
    <2>2. GroupsInv' /\ \A r \in db'.roles : r \in db.roles \/ r[1] = a
      BY <2>1, ApplyRoleKeeps
    <2>3. a \in DOMAIN account /\ UNCHANGED <<account, web>>
      BY <1>8 DEF ApplyRoleToAccount
    <2>4. AccessInv'
      BY <2>2, <2>3 DEF AccessInv
    <2> QED
      BY <2>2, <2>4 DEF AInv
  <1>9. ASSUME NEW a \in Accounts, ProcessRequest(a) PROVE AInv'
    <2> DEFINE loaded == a \in DOMAIN account /\ account[a].active
    <2>1. /\ web' = [phase |-> "loaded",
                     user |-> IF loaded THEN [id |-> a, superuser |-> account[a].superuser]
                              ELSE Anonymous,
                     beganActive |-> loaded]
          /\ UNCHANGED <<db, req, want, account>>
      BY <1>9 DEF ProcessRequest
    <2>2. loaded \in BOOLEAN
      OBVIOUS
    <2> HIDE DEF loaded
    <2>3. /\ DOMAIN web' = {"phase", "user", "beganActive"} /\ web'.phase = "loaded"
          /\ web'.beganActive = loaded /\ (web'.user # Anonymous => loaded)
      BY <2>1
    <2>4. AccessInv'
      BY <2>1, <2>2, <2>3 DEF AccessInv
    <2> QED
      BY <1>1, <2>1, <2>4 DEF AInv
  <1>10. ASSUME CheckPermission PROVE AInv'
    <2>1. web # NoRequest
      BY <1>10 DEF CheckPermission, NoRequest
    <2>2. DOMAIN web = {"phase", "user", "beganActive"}
      BY <2>1 DEF AccessInv
    <2>3. /\ DOMAIN web' = {"phase", "user", "beganActive"}
          /\ web'.phase \in {"allowed", "denied"} /\ web'.user = web.user
          /\ web'.beganActive = web.beganActive
          /\ UNCHANGED <<db, req, want, account>>
      BY <1>10, <2>2 DEF CheckPermission
    <2>4. AccessInv'
      BY <2>1, <2>3 DEF AccessInv
    <2> QED
      BY <1>1, <2>3, <2>4 DEF AInv
  <1>11. ASSUME Respond PROVE AInv'
    BY <1>1, <1>11 DEF Respond, AInv, AccessInv
  <1>12. ASSUME UNCHANGED vars PROVE AInv'
    <2>1. AccessInv'
      BY <1>12 DEF vars, AccessInv
    <2> QED
      BY <1>1, <1>12, <2>1 DEF vars, AInv
  <1> QED
    BY <1>2, <1>3, <1>4, <1>5, <1>6, <1>7, <1>8, <1>9, <1>10, <1>11, <1>12 DEF Next, Steps

LEMMA InvAlways == Spec => []AInv
  BY InvInit, InvNext, PTL DEF Spec

-----------------------------------------------------------------------------
(* The theorems *)

\* TypeOK, for any numbers of workers, accounts, groups and names: the mirrors
\* are well formed and a role is always of a mirror and an account that exist.
THEOREM TypeCorrect == Spec => []TypeOK
  <1>1. AInv => TypeOK
    <2> SUFFICES ASSUME GroupsInv, AccessInv PROVE TypeOK
      BY DEF AInv
    <2>1. DbOK(db) /\ DOMAIN db.names = 1..Len(db.names) /\ db.names \in Seq(Names)
      BY DEF GroupsInv, DbOK, Database
    <2>2. ASSUME NEW g \in DOMAIN db.names
          PROVE  /\ db.names[g] \in Names
                 /\ Mirrored(db, g) => db.auth[g].name \in Names /\ db.auth[g].perms # {}
      BY <2>1, MirrorFacts
    <2>3. ASSUME NEW r \in db.roles PROVE r[1] \in Accounts /\ Mirrored(db, r[2])
      BY <2>1 DEF DbOK, AccessInv
    <2>4. GroupsTypeOK
      BY <2>1, <2>2, <2>3 DEF GroupsTypeOK, GroupsInv, DbOK
    <2> QED
      BY <2>4 DEF TypeOK, AccessInv
  <1> QED
    BY <1>1, InvAlways, PTL

\* OnlyOvertakenMisses: a transaction that was not overtaken gives every group
\* of its forms the permissions these ask for, whatever it was missing before,
\* and makes no other group miss any.
THEOREM FormsTakeEffect == Spec => OnlyOvertakenMisses
  <1>1. ASSUME AInv, NEW w \in Workers, Commit(w), ~ req[w].stale
        PROVE  Missed(db', want') =
                 Missed(db, want) \ {req[w].forms[i].group : i \in DOMAIN req[w].forms}
    <2> DEFINE forms == req[w].forms
    <2>1. GroupsInv
      BY <1>1 DEF AInv
    <2>2. /\ Busy(w) /\ Batch(forms)
          /\ DoneUpto(forms, Len(forms), SaveAll(forms)) /\ db' = SaveAll(forms).d
          /\ Len(db'.names) \in Nat /\ Len(db.names) <= Len(db'.names)
          /\ want' = [g \in 1..Len(db'.names) |-> want'[g]]
          /\ \A g \in 1..Len(db'.names) :
               \/ \E i \in 1..Len(forms) : Target(forms, i) = g /\ want'[g] = forms[i].perms
               \/ /\ g \in 1..Len(db.names) /\ \A i \in 1..Len(forms) : forms[i].group # g
                  /\ want'[g] = want[g]
      BY <1>1, <2>1, CommitIs
    <2>3. \A i \in 1..Len(forms) : Fresh(db, forms[i])
      BY <1>1, <2>1, <2>2 DEF GroupsInv, ReqOK
    <2> HIDE DEF forms
    <2>4. /\ DOMAIN want' = 1..Len(db'.names) /\ DOMAIN want = 1..Len(db.names)
          /\ DbOK(db) /\ Len(db.names) \in Nat /\ DOMAIN forms = 1..Len(forms) /\ Len(forms) \in Nat
      BY <2>1, <2>2 DEF GroupsInv, Batch, BatchFor, DbOK, Database
    <2>5. ASSUME NEW i \in 1..Len(forms)
          PROVE  /\ db'.auth[Target(forms, i)].perms = forms[i].perms
                 /\ Target(forms, i) \in 1..Len(db.names) => Target(forms, i) = forms[i].group
      BY <2>2, <2>3, <2>4 DEF DoneUpto, Target
    <2>6. ASSUME NEW g \in 1..Len(db.names), \A i \in 1..Len(forms) : forms[i].group # g
          PROVE  db'.auth[g] = db.auth[g]
      BY <2>2, <2>6 DEF DoneUpto
    <2>7. ASSUME NEW g \in Missed(db', want')
          PROVE  g \in Missed(db, want) /\ \A i \in 1..Len(forms) : forms[i].group # g
      <3>1. g \in 1..Len(db'.names) /\ db'.auth[g].perms # want'[g]
        BY <2>4 DEF Missed
      <3>2. ~ \E i \in 1..Len(forms) : Target(forms, i) = g /\ want'[g] = forms[i].perms
        BY <2>5, <3>1
      <3>3. /\ g \in 1..Len(db.names) /\ \A i \in 1..Len(forms) : forms[i].group # g
            /\ want'[g] = want[g]
        BY <2>2, <3>1, <3>2
      <3> QED
        BY <2>4, <2>6, <3>1, <3>3 DEF Missed
    <2>8. ASSUME NEW g \in Missed(db, want), \A i \in 1..Len(forms) : forms[i].group # g
          PROVE  g \in Missed(db', want')
      <3>1. g \in 1..Len(db.names) /\ db.auth[g].perms # want[g]
        BY <2>4 DEF Missed
      <3>2. g \in 1..Len(db'.names)
        BY <2>2, <2>4, <3>1
      <3>3. ~ \E i \in 1..Len(forms) : Target(forms, i) = g
        BY <2>5, <2>8, <3>1
      <3>4. want'[g] = want[g]
        BY <2>2, <3>2, <3>3
      <3> QED
        BY <2>4, <2>6, <2>8, <3>1, <3>2, <3>4 DEF Missed
    <2>9. Missed(db', want') = Missed(db, want) \ {forms[i].group : i \in DOMAIN forms}
      BY <2>4, <2>7, <2>8
    <2> QED
      BY <2>9 DEF forms
  <1> DEFINE Effect == \A w \in Workers :
               Commit(w) /\ ~ req[w].stale =>
                 Missed(db', want') =
                   Missed(db, want) \ {req[w].forms[i].group : i \in DOMAIN req[w].forms}
  <1>2. AInv => Effect
    BY <1>1
  <1> QED
    <2>1. AInv /\ [Next]_vars => [Effect]_groupVars
      BY <1>2
    <2> QED
      BY <2>1, InvAlways, PTL DEF Spec, OnlyOvertakenMisses

\* OnlyRenamedRefuses: a request that was not overtaken and names its groups
\* apart from each other and from the rest is refused only after a renaming.
THEOREM DistinctNamesPass == Spec => OnlyRenamedRefuses
  <1> DEFINE Reason(w) ==
        LET forms == req[w].forms
            rest == {g \in DOMAIN db.names : \A i \in DOMAIN forms : forms[i].group # g}
            renamed(g) == Mirrored(db, g) /\ db.auth[g].name # db.names[g]
        IN  Refuse(w) /\ ~ req[w].stale =>
              \/ \E i, j \in DOMAIN forms : i # j /\ forms[i].name = forms[j].name
              \/ \E i \in DOMAIN forms, g \in rest : forms[i].name = db.names[g]
              \/ \E g \in DOMAIN db.names : renamed(g)
              \/ \E i \in DOMAIN forms : /\ forms[i].group # New
                                         /\ forms[i].name # db.names[forms[i].group]
  <1>1. ASSUME AInv, NEW w \in Workers PROVE Reason(w)
    <2> DEFINE forms == req[w].forms
               rest == {g \in DOMAIN db.names : \A i \in DOMAIN forms : forms[i].group # g}
               renamed(g) == Mirrored(db, g) /\ db.auth[g].name # db.names[g]
    <2> SUFFICES ASSUME Refuse(w), ~ req[w].stale,
                        ~ \E i, j \in DOMAIN forms : i # j /\ forms[i].name = forms[j].name,
                        ~ \E i \in DOMAIN forms, g \in rest : forms[i].name = db.names[g],
                        ~ \E g \in DOMAIN db.names : renamed(g),
                        ~ \E i \in DOMAIN forms : /\ forms[i].group # New
                                                  /\ forms[i].name # db.names[forms[i].group]
                 PROVE  FALSE
      BY Zenon
    <2>1. Busy(w) /\ ~ SaveAll(forms).ok
      BY DEF Refuse
    <2>2. ReqOK(w) /\ DbOK(db)
      BY <1>1 DEF AInv, GroupsInv
    <2>3. Batch(forms) /\ \A i \in 1..Len(forms) : Fresh(db, forms[i])
      BY <2>1, <2>2 DEF ReqOK
    <2> HIDE DEF forms
    <2>4. DOMAIN forms = 1..Len(forms) /\ DOMAIN db.names = 1..Len(db.names)
      BY <2>2, <2>3 DEF Batch, BatchFor, DbOK, Database
    <2>5. NoneRenamed
      BY <2>4 DEF NoneRenamed
    <2>6. \A i \in 1..Len(forms) : forms[i].group # New => forms[i].name = db.names[forms[i].group]
      BY <2>4
    <2>7. \A i, j \in 1..Len(forms) : i # j => forms[i].name # forms[j].name
      BY <2>4
    <2>8. \A i \in 1..Len(forms), g \in 1..Len(db.names) :
            (\A j \in 1..Len(forms) : forms[j].group # g) => forms[i].name # db.names[g]
      BY <2>4
    <2> QED
      BY <2>1, <2>2, <2>3, <2>5, <2>6, <2>7, <2>8, DistinctNamesSave
  <1> QED
    <2>1. AInv /\ [Next]_vars => [\A w \in Workers : Reason(w)]_groupVars
      BY <1>1
    <2> QED
      BY <2>1, InvAlways, PTL DEF Spec, OnlyRenamedRefuses

\* RolesLostOnlyByEmptying: of all the steps of the groups and the accounts, only
\* the commit of a form that takes every permission of a group takes its role
\* away, and from nobody else.
THEOREM RolesKept == Spec => RolesLostOnlyByEmptying
  <1> DEFINE Emptied(r) ==
        \E w \in Workers : /\ Busy(w) /\ req'[w] = Idle
                           /\ \E i \in DOMAIN req[w].forms :
                                req[w].forms[i].group = r[2] /\ req[w].forms[i].perms = {}
  <1>1. ASSUME AInv, Next, NEW r \in db.roles, r \notin db'.roles PROVE Emptied(r)
    <2>1. GroupsInv
      BY <1>1 DEF AInv
    <2>2. ASSUME NEW w \in Workers, Commit(w) PROVE Emptied(r)
      <3> DEFINE forms == req[w].forms
      <3>1. /\ Busy(w) /\ Batch(forms)
            /\ DoneUpto(forms, Len(forms), SaveAll(forms)) /\ db' = SaveAll(forms).d
        BY <2>1, <2>2, CommitIs
      <3>2. req'[w] = Idle
        BY <2>2 DEF Commit, End
      <3> HIDE DEF forms
      <3>3. PICK i \in 1..Len(forms) : forms[i].group = r[2] /\ forms[i].perms = {}
        BY <1>1, <3>1 DEF DoneUpto
      <3>4. DOMAIN forms = 1..Len(forms)
        BY <3>1 DEF Batch, BatchFor
      <3> QED
        BY <3>1, <3>2, <3>3, <3>4 DEF forms
    <2>3. ASSUME NEW a \in Accounts, ApplyRoleToAccount(a) PROVE FALSE
      <3>1. PICK g \in DOMAIN db.names : ApplyRole(a, g)
        BY <2>3 DEF ApplyRoleToAccount
      <3>2. db.roles \subseteq db'.roles
        BY <2>1, <3>1, ApplyRoleKeeps
      <3> QED
        BY <1>1, <3>2
    <2>4. db' # db
      BY <1>1
    <2>5. /\ \A w \in Workers : ~ PostCreate(w) /\ ~ PostEdit(w) /\ ~ Refuse(w)
          /\ \A a \in Accounts, superuser \in BOOLEAN : ~ CreateAccount(a, superuser)
          /\ \A a \in Accounts : ~ SetActive(a) /\ ~ ProcessRequest(a)
          /\ ~ CheckPermission /\ ~ Respond
      BY <2>4 DEF PostCreate, PostEdit, Refuse, CreateAccount, SetActive, ProcessRequest,
                  CheckPermission, Respond
    <2> HIDE DEF Emptied
    <2> QED
      BY <1>1, <2>2, <2>3, <2>5 DEF Next, Steps
  <1> DEFINE Kept == \A r \in db.roles : r \notin db'.roles => Emptied(r)
  <1>2. AInv /\ [Next]_vars => [Kept]_groupVars
    <2> HIDE DEF Emptied
    <2> QED
      BY <1>1 DEF vars, groupVars
  <1> QED
    BY <1>2, InvAlways, PTL DEF Spec, RolesLostOnlyByEmptying

\* AllowedOnlyIfGiven: whoever is allowed was active when the request began, and
\* is a superuser or has the permission through a role by the last committed
\* forms, but for the groups that miss theirs.
THEOREM AllowedIfGiven == Spec => AllowedOnlyIfGiven
  <1> DEFINE Given == CheckPermission /\ web'.phase = "allowed" =>
                        /\ web.beganActive
                        /\ \/ web.user.superuser
                           \/ Perm \in RolePermissions(want, web.user.id)
                           \/ \E g \in Missed(db, want) : <<web.user.id, g>> \in db.roles
  <1>1. ASSUME AInv, CheckPermission, web'.phase = "allowed"
        PROVE  /\ web.beganActive
               /\ \/ web.user.superuser
                  \/ Perm \in RolePermissions(want, web.user.id)
                  \/ \E g \in Missed(db, want) : <<web.user.id, g>> \in db.roles
    <2>1. web # NoRequest
      BY <1>1 DEF CheckPermission, NoRequest
    <2>2. /\ DOMAIN web = {"phase", "user", "beganActive"}
          /\ web.user # Anonymous => web.beganActive
      BY <1>1, <2>1 DEF AInv, AccessInv
    <2>3. HasPerm(web.user)
      BY <1>1, <2>2 DEF CheckPermission
    <2>4. web.beganActive
      BY <2>2, <2>3 DEF HasPerm
    <2>5. ASSUME Perm \in RolePermissions([g \in DOMAIN db.auth |-> db.auth[g].perms], web.user.id)
          PROVE  \/ Perm \in RolePermissions(want, web.user.id)
                 \/ \E g \in Missed(db, want) : <<web.user.id, g>> \in db.roles
      <3> DEFINE perms == [g \in DOMAIN db.auth |-> db.auth[g].perms]
      <3>1. PICK r \in db.roles : r[1] = web.user.id /\ Perm \in perms[r[2]]
        BY <2>5 DEF RolePermissions
      <3>2. /\ r[2] \in DOMAIN db.auth /\ r[2] \in DOMAIN want
            /\ r \in Accounts \X Nat
        BY <1>1 DEF AInv, GroupsInv, DbOK, Database
      <3>3. Perm \in db.auth[r[2]].perms
        BY <3>1, <3>2
      <3>4. CASE db.auth[r[2]].perms = want[r[2]]
        BY <3>1, <3>3, <3>4 DEF RolePermissions
      <3>5. CASE db.auth[r[2]].perms # want[r[2]]
        <4>1. r[2] \in Missed(db, want)
          BY <3>2, <3>5 DEF Missed
        <4>2. r = <<web.user.id, r[2]>>
          BY <3>1, <3>2
        <4> QED
          BY <4>1, <4>2
      <3> QED
        BY <3>4, <3>5
    <2> QED
      BY <2>3, <2>4, <2>5 DEF HasPerm
  <1>2. AInv /\ [Next]_vars => [Given]_vars
    BY <1>1
  <1> QED
    BY <1>2, InvAlways, PTL DEF Spec, AllowedOnlyIfGiven

=============================================================================
