------------------------- MODULE GroupFormsetProofs -------------------------
(***************************************************************************)
(* Proofs about the closure table of the groups, ClosureTable, and about   *)
(* the workers that edit it, GroupFormset, for hierarchies and requests of *)
(* any size: inserting a group keeps the table faithful, an update finds   *)
(* just the trees that it has to move, the reordering loop ends for what   *)
(* the validators accept, a tangled plan takes three moved trees, and an   *)
(* update that was checked and is not tangled keeps the table exact.       *)
(***************************************************************************)
EXTENDS GroupFormset, FiniteSetTheorems, SequenceTheorems, WellFoundedInduction, TLAPS

-----------------------------------------------------------------------------
(* The table row by row.  Faithful describes it without recursion: a row   *)
(* of length n above a group is a row of length n - 1 above its parent.    *)

Faithful(T, parent) ==
  /\ Root \notin DOMAIN parent
  /\ T \subseteq [anc : DOMAIN parent, desc : DOMAIN parent, depth : Nat]
  /\ \A d \in DOMAIN parent : parent[d] \in DOMAIN parent \cup {Root}
  /\ \A a, d \in DOMAIN parent : Row(a, d, 0) \in T <=> a = d
  /\ \A a, d \in DOMAIN parent, n \in Nat :
       Row(a, d, n + 1) \in T <=> parent[d] # Root /\ Row(a, parent[d], n) \in T

\* The hierarchy with the new group g under p.
Planted(parent, g, p) ==
  [d \in DOMAIN parent \cup {g} |-> IF d = g THEN p ELSE parent[d]]

\* A row is known by its three columns.
LEMMA RowFields ==
  ASSUME NEW a, NEW d, NEW n
  PROVE  /\ Row(a, d, n).anc = a /\ Row(a, d, n).desc = d /\ Row(a, d, n).depth = n
         /\ \A b, e, m : Row(a, d, n) = Row(b, e, m) <=> a = b /\ d = e /\ n = m
  <1>1. /\ Row(a, d, n).anc = a /\ Row(a, d, n).desc = d /\ Row(a, d, n).depth = n
    BY DEF Row
  <1>2. ASSUME NEW b, NEW e, NEW m, Row(a, d, n) = Row(b, e, m)
        PROVE  a = b /\ d = e /\ n = m
    <2>1. Row(b, e, m).anc = b /\ Row(b, e, m).desc = e /\ Row(b, e, m).depth = m
      BY DEF Row
    <2>2. QED  BY <1>1, <2>1, <1>2
  <1>3. QED  BY <1>1, <1>2

\* Every row that a query returns is a Row.
LEMMA RowOf ==
  ASSUME NEW D, NEW T, T \subseteq [anc : D, desc : D, depth : Nat], NEW r \in T
  PROVE  r = Row(r.anc, r.desc, r.depth) /\ r.anc \in D /\ r.desc \in D /\ r.depth \in Nat
  BY DEF Row

\* Which rows the table has after GenericUserGroup.save (as used by
\* GenericUserGroupFormset.insert): the old ones, the new group itself, and
\* one for every row that ends in its parent.
LEMMA InsertedRows ==
  ASSUME NEW D, NEW T, T \subseteq [anc : D, desc : D, depth : Nat],
         NEW g, g \notin D, NEW p,
         NEW a, NEW d, NEW n \in Nat
  PROVE  Row(a, d, n) \in InsertLeaf(T, g, p) <=>
           \/ Row(a, d, n) \in T
           \/ d = g /\ a = g /\ n = 0
           \/ d = g /\ n > 0 /\ Row(a, p, n - 1) \in T
  <1> DEFINE New == {Row(r.anc, g, r.depth + 1) : r \in {q \in T : q.desc = p}}
  <1>1. Row(a, d, n) \in InsertLeaf(T, g, p) <=>
          Row(a, d, n) \in T \/ Row(a, d, n) = Row(g, g, 0) \/ Row(a, d, n) \in New
    BY DEF InsertLeaf
  <1>2. Row(a, d, n) = Row(g, g, 0) <=> a = g /\ d = g /\ n = 0
    BY RowFields
  <1>3. ASSUME Row(a, d, n) \in New
        PROVE  d = g /\ n > 0 /\ Row(a, p, n - 1) \in T
    <2>1. PICK r \in T : r.desc = p /\ Row(a, d, n) = Row(r.anc, g, r.depth + 1)
      BY <1>3
    <2>2. a = r.anc /\ d = g /\ n = r.depth + 1
      BY <2>1, RowFields
    <2>3. r = Row(r.anc, p, r.depth) /\ r.depth \in Nat
      BY <2>1, RowOf
    <2>4. QED  BY <2>2, <2>3
  <1>4. ASSUME d = g, n > 0, Row(a, p, n - 1) \in T
        PROVE  Row(a, d, n) \in New
    <2> DEFINE r == Row(a, p, n - 1)
    <2>1. r.anc = a /\ r.desc = p /\ r.depth = n - 1
      BY RowFields
    <2>2. Row(a, d, n) = Row(r.anc, g, r.depth + 1)
      BY <2>1, <1>4
    <2>3. r \in {q \in T : q.desc = p}
      BY <2>1, <1>4
    <2>4. QED  BY <2>2, <2>3
  <1>5. QED  BY <1>1, <1>2, <1>3, <1>4

\* The table that GenericUserGroupFormset.insert leaves for one more group
\* holds exactly the paths of the grown hierarchy, whatever the hierarchy
\* was and wherever the group is put.
THEOREM InsertLeafKeepsFaithful ==
  ASSUME NEW T, NEW parent, Faithful(T, parent),
         NEW g, g \notin DOMAIN parent, g # Root,
         NEW p \in DOMAIN parent \cup {Root}
  PROVE  Faithful(InsertLeaf(T, g, p), Planted(parent, g, p))
  <1> DEFINE D == DOMAIN parent
             U == InsertLeaf(T, g, p)
             up == Planted(parent, g, p)
  <1>1. T \subseteq [anc : D, desc : D, depth : Nat] /\ Root \notin D
    BY DEF Faithful
  <1>2. /\ DOMAIN up = D \cup {g}
        /\ up[g] = p /\ \A d \in D : up[d] = parent[d]
    BY DEF Planted
  <1>3. \A a, d, n : Row(a, d, n) \in T => a \in D /\ d \in D /\ n \in Nat
    <2> SUFFICES ASSUME NEW a, NEW d, NEW n, Row(a, d, n) \in T
                 PROVE  a \in D /\ d \in D /\ n \in Nat
      OBVIOUS
    <2>1. Row(a, d, n).anc \in D /\ Row(a, d, n).desc \in D /\ Row(a, d, n).depth \in Nat
      BY <1>1
    <2>2. QED  BY <2>1, RowFields
  <1>4. \A a, d : \A n \in Nat :
          Row(a, d, n) \in U <=> \/ Row(a, d, n) \in T
                                 \/ d = g /\ a = g /\ n = 0
                                 \/ d = g /\ n > 0 /\ Row(a, p, n - 1) \in T
    BY <1>1, InsertedRows
  <1>5. Root \notin DOMAIN up
    BY <1>1, <1>2
  <1>6. U \subseteq [anc : D \cup {g}, desc : D \cup {g}, depth : Nat]
    <2> SUFFICES ASSUME NEW u \in U
                 PROVE  u \in [anc : D \cup {g}, desc : D \cup {g}, depth : Nat]
      OBVIOUS
    <2>1. CASE u \in T
      BY <1>1, <2>1
    <2>2. CASE u = Row(g, g, 0)
      BY <2>2 DEF Row
    <2>3. CASE \E r \in T : u = Row(r.anc, g, r.depth + 1)
      BY <1>1, <2>3 DEF Row
    <2>4. QED  BY <2>1, <2>2, <2>3 DEF InsertLeaf
  <1>7. \A d \in DOMAIN up : up[d] \in DOMAIN up \cup {Root}
    BY <1>2 DEF Faithful
  <1>8. ASSUME NEW a \in DOMAIN up, NEW d \in DOMAIN up
        PROVE  Row(a, d, 0) \in U <=> a = d
    <2>1. Row(a, d, 0) \in U <=> Row(a, d, 0) \in T \/ (d = g /\ a = g)
      BY <1>4
    <2>2. CASE d \in D /\ a \in D
      BY <2>1, <2>2 DEF Faithful
    <2>3. CASE d \notin D \/ a \notin D
      BY <2>1, <2>3, <1>2, <1>3
    <2>4. QED  BY <2>2, <2>3
  <1>9. ASSUME NEW a \in DOMAIN up, NEW d \in DOMAIN up, NEW n \in Nat
        PROVE  Row(a, d, n + 1) \in U <=> up[d] # Root /\ Row(a, up[d], n) \in U
    <2>1. CASE d = g
      <3>1. Row(a, d, n + 1) \in U <=> Row(a, p, n) \in T
        <4>1. Row(a, d, n + 1) \notin T
          BY <1>3, <2>1
        <4>2. n + 1 \in Nat /\ n + 1 # 0 /\ n + 1 > 0 /\ (n + 1) - 1 = n
          OBVIOUS
        <4>3. QED  BY <1>4, <2>1, <4>1, <4>2
      <3>2. p # g
        OBVIOUS
      <3>3. Row(a, p, n) \in U <=> Row(a, p, n) \in T
        BY <1>4, <3>2
      <3>4. Row(a, p, n) \in T => p # Root
        BY <1>1, <1>3
      <3>5. QED  BY <1>2, <2>1, <3>1, <3>3, <3>4
    <2>2. CASE d \in D
      <3>1. d # g /\ up[d] = parent[d] /\ parent[d] # g
        BY <1>2, <2>2 DEF Faithful
      <3>2. Row(a, d, n + 1) \in U <=> Row(a, d, n + 1) \in T
        BY <1>4, <3>1
      <3>3. Row(a, parent[d], n) \in U <=> Row(a, parent[d], n) \in T
        BY <1>4, <3>1
      <3>4. CASE a \in D
        BY <2>2, <3>1, <3>2, <3>3, <3>4 DEF Faithful
      <3>5. CASE a \notin D
        BY <1>3, <3>1, <3>2, <3>3, <3>5
      <3>6. QED  BY <3>4, <3>5
    <2>3. QED  BY <1>2, <2>1, <2>2
  <1>10. QED
    BY <1>2, <1>5, <1>6, <1>7, <1>8, <1>9 DEF Faithful

\* closure_model.get_parents of a faithful table finds the parent.
LEMMA ParentIsRead ==
  ASSUME NEW T, NEW parent, Faithful(T, parent), NEW g \in DOMAIN parent
  PROVE  Parent(T, g) = parent[g]
  <1> DEFINE up == {r \in T : r.desc = g /\ r.depth = 1}
  <1>1. T \subseteq [anc : DOMAIN parent, desc : DOMAIN parent, depth : Nat]
    BY DEF Faithful
  <1>2. ASSUME NEW a \in DOMAIN parent
        PROVE  Row(a, g, 1) \in T <=> parent[g] = a
    <2>1. Row(a, g, 0 + 1) \in T <=> parent[g] # Root /\ Row(a, parent[g], 0) \in T
      BY DEF Faithful
    <2>2. parent[g] # Root => (Row(a, parent[g], 0) \in T <=> a = parent[g])
      BY DEF Faithful
    <2>3. a # Root
      BY DEF Faithful
    <2>4. 0 + 1 = 1
      OBVIOUS
    <2>5. QED  BY <2>1, <2>2, <2>3, <2>4
  <1>3. ASSUME NEW r \in up PROVE r.anc = parent[g]
    BY <1>1, <1>2, RowOf
  <1>4. CASE parent[g] = Root
    <2>1. up = {}
      <3>1. ASSUME NEW r \in up PROVE FALSE
        BY <1>1, <1>3, <1>4 DEF Faithful
      <3>2. QED  BY <3>1
    <2>2. QED  BY <1>4, <2>1 DEF Parent
  <1>5. CASE parent[g] # Root
    <2>1. Row(parent[g], g, 1) \in up
      BY <1>2, <1>5, RowFields DEF Faithful
    <2>2. (CHOOSE r \in up : TRUE) \in up
      BY <2>1
    <2>3. Parent(T, g) = (CHOOSE r \in up : TRUE).anc
      BY <2>1 DEF Parent
    <2>4. QED  BY <1>3, <2>2, <2>3
  <1>6. QED  BY <1>4, <1>5

\* While the table is faithful, the trees that an update edits
\* (ClosureTableFormsetMixin.update) are those whose parent it changes.
THEOREM OnlyMovedTreesAreEdited ==
  ASSUME NEW T, NEW parent, Faithful(T, parent),
         NEW posted, DOMAIN posted \subseteq DOMAIN parent
  PROVE  EditTrees(T, posted) = {g \in DOMAIN posted : posted[g] # parent[g]}
  <1>1. \A g \in DOMAIN posted : Parent(T, g) = parent[g]
    BY ParentIsRead
  <1>2. QED  BY <1>1 DEF EditTrees

-----------------------------------------------------------------------------
(* Induction: along an interval, and by a least number.                     *)

\* A nonempty set of numbers has a least one.
LEMMA LeastNumber ==
  ASSUME NEW T, T \subseteq Nat, T # {}
  PROVE  \E x \in T : \A y \in T : x <= y
  <1>1. \E x \in T : \A y \in T : ~ (<<y, x>> \in OpToRel(<, Nat))
    BY WFMin, NatLessThanWellFounded
  <1>2. ASSUME NEW x \in T, NEW y \in T, ~ (x <= y) PROVE <<y, x>> \in OpToRel(<, Nat)
    <2>1. y \in Nat /\ x \in Nat
      OBVIOUS
    <2>2. y < x
      BY <1>2, <2>1
    <2> QED
      BY <2>1, <2>2 DEF OpToRel
  <1> QED
    BY <1>1, <1>2, Zenon

\* A set that holds 0 and, with a number, the next one up to n, holds 0..n.
LEMMA NatSetInduction ==
  ASSUME NEW n \in Nat, NEW S, 0 \in S,
         \A i \in 1..n : i - 1 \in S => i \in S
  PROVE  0..n \subseteq S
  <1> SUFFICES ASSUME NEW b \in 0..n, b \notin S PROVE FALSE
    OBVIOUS
  <1> DEFINE T == (0..n) \ S
  <1>1. T \subseteq Nat /\ T # {}
    OBVIOUS
  <1>2. PICK x \in T : \A y \in T : x <= y
    <2> HIDE DEF T
    <2> QED
      BY <1>1, LeastNumber
  <1>3. x \in 1..n /\ x \notin S
    <2>1. x \in 0..n /\ x \notin S
      OBVIOUS
    <2> QED
      BY <2>1
  <1>4. x - 1 \in 0..n /\ ~ (x <= x - 1)
    BY <1>3
  <1>5. x - 1 \in S
    <2>1. x - 1 \notin T
      BY <1>2, <1>4
    <2> QED
      BY <2>1, <1>4
  <1> QED
    BY <1>3, <1>5

-----------------------------------------------------------------------------
(* PathsOf and Acyclic go stage by stage, one for each length of a path.    *)

\* The rows of the paths that are one longer than the longest in rows.
Longer(parent, rows, n) ==
  rows \cup {Row(parent[r.anc], r.desc, n) :
               r \in {q \in rows : q.depth = n - 1 /\ parent[q.anc] # Root}}

\* The groups above, and those with a parent among them or none.
Lower(parent, above) == above \cup {g \in DOMAIN parent : parent[g] \in above \cup {Root}}

PathStages(parent, p) ==
  /\ p[0] = {Row(g, g, 0) : g \in DOMAIN parent}
  /\ \A n \in 1..Cardinality(DOMAIN parent) : p[n] = Longer(parent, p[n - 1], n)
  /\ PathsOf(parent) = p[Cardinality(DOMAIN parent)]

ReachStages(parent, r) ==
  /\ r[0] = {}
  /\ \A n \in 1..Cardinality(DOMAIN parent) : r[n] = Lower(parent, r[n - 1])
  /\ Acyclic(parent) <=> r[Cardinality(DOMAIN parent)] = DOMAIN parent

\* The reference PathsOf adds the paths of one length after the other.
LEMMA PathsByLength ==
  ASSUME NEW parent, Cardinality(DOMAIN parent) \in Nat
  PROVE  \E p : PathStages(parent, p)
  <1> DEFINE N == Cardinality(DOMAIN parent)
             Start == {Row(g, g, 0) : g \in DOMAIN parent}
             Upto(f, m) == f = [n \in 0..m |-> IF n = 0 THEN Start
                                               ELSE Longer(parent, f[n - 1], n)]
             S == {m \in 0..N : \E f : Upto(f, m)}
  <1> HIDE DEF Start
  <1>1. 0 \in S
    <2> DEFINE f == [i \in 0..0 |-> Start]
    <2>1. Upto(f, 0)
      OBVIOUS
    <2> HIDE DEF f, Upto
    <2> QED
      BY <2>1
  <1>2. ASSUME NEW n \in 1..N, n - 1 \in S PROVE n \in S
    <2>1. PICK f : Upto(f, n - 1)
      BY <1>2
    <2> DEFINE h == [i \in 0..n |-> IF i = n THEN Longer(parent, f[n - 1], n) ELSE f[i]]
    <2>2. h[0] = Start
      BY <2>1
    <2>3. ASSUME NEW i \in 1..n PROVE h[i] = Longer(parent, h[i - 1], i)
      <3>1. h[i - 1] = f[i - 1]
        OBVIOUS
      <3>2. i # n => f[i] = Longer(parent, f[i - 1], i)
        BY <2>1
      <3> QED
        BY <3>1, <3>2
    <2>4. Upto(h, n)
      <3> DEFINE k == [i \in 0..n |-> IF i = 0 THEN Start ELSE Longer(parent, h[i - 1], i)]
      <3>1. \A i \in 0..n : h[i] = k[i]
        <4> SUFFICES ASSUME NEW i \in 0..n PROVE h[i] = k[i]
          OBVIOUS
        <4>1. CASE i = 0
          BY <4>1, <2>2
        <4>2. CASE i # 0
          <5>1. i \in 1..n
            BY <4>2
          <5> HIDE DEF h
          <5> QED
            BY <4>2, <5>1, <2>3
        <4> QED
          BY <4>1, <4>2
      <3>2. DOMAIN h = 0..n /\ h = [i \in DOMAIN h |-> h[i]]
        OBVIOUS
      <3>3. DOMAIN k = 0..n /\ k = [i \in DOMAIN k |-> k[i]]
        OBVIOUS
      <3>4. h = k
        <4> HIDE DEF h, k
        <4> QED
          BY <3>1, <3>2, <3>3
      <3> QED
        BY <3>4
    <2> HIDE DEF h
    <2> QED
      BY <2>4
  <1>3. 0..N \subseteq S
    <2>1. \A n \in 1..N : n - 1 \in S => n \in S
      BY <1>2
    <2> HIDE DEF S, N
    <2> QED
      BY <1>1, <2>1, NatSetInduction DEF N
  <1>4. \E f : Upto(f, N)
    <2>1. N \in S
      BY <1>3
    <2> HIDE DEF Upto
    <2> QED
      BY <2>1 DEF S
  <1> DEFINE T == CHOOSE f : Upto(f, N)
  <1>5. Upto(T, N)
    BY <1>4
  <1>6. PathsOf(parent) = T[N]
    BY DEF PathsOf, Longer, Start
  <1> HIDE DEF T
  <1>7. T[0] = Start /\ \A n \in 1..N : T[n] = Longer(parent, T[n - 1], n)
    BY <1>5
  <1> QED
    BY <1>6, <1>7 DEF PathStages, Start

\* Acyclic goes from the roots down, one level after the other.
LEMMA ReachedByLevel ==
  ASSUME NEW parent, Cardinality(DOMAIN parent) \in Nat
  PROVE  \E r : ReachStages(parent, r)
  <1> DEFINE N == Cardinality(DOMAIN parent)
             Start == {}
             Upto(f, m) == f = [n \in 0..m |-> IF n = 0 THEN Start ELSE Lower(parent, f[n - 1])]
             S == {m \in 0..N : \E f : Upto(f, m)}
  <1> HIDE DEF Start
  <1>1. 0 \in S
    <2> DEFINE f == [i \in 0..0 |-> Start]
    <2>1. Upto(f, 0)
      OBVIOUS
    <2> HIDE DEF f, Upto
    <2> QED
      BY <2>1
  <1>2. ASSUME NEW n \in 1..N, n - 1 \in S PROVE n \in S
    <2>1. PICK f : Upto(f, n - 1)
      BY <1>2
    <2> DEFINE h == [i \in 0..n |-> IF i = n THEN Lower(parent, f[n - 1]) ELSE f[i]]
    <2>2. h[0] = Start
      BY <2>1
    <2>3. ASSUME NEW i \in 1..n PROVE h[i] = Lower(parent, h[i - 1])
      <3>1. h[i - 1] = f[i - 1]
        OBVIOUS
      <3>2. i # n => f[i] = Lower(parent, f[i - 1])
        BY <2>1
      <3> QED
        BY <3>1, <3>2
    <2>4. Upto(h, n)
      <3> DEFINE k == [i \in 0..n |-> IF i = 0 THEN Start ELSE Lower(parent, h[i - 1])]
      <3>1. \A i \in 0..n : h[i] = k[i]
        <4> SUFFICES ASSUME NEW i \in 0..n PROVE h[i] = k[i]
          OBVIOUS
        <4>1. CASE i = 0
          BY <4>1, <2>2
        <4>2. CASE i # 0
          <5>1. i \in 1..n
            BY <4>2
          <5> HIDE DEF h
          <5> QED
            BY <4>2, <5>1, <2>3
        <4> QED
          BY <4>1, <4>2
      <3>2. DOMAIN h = 0..n /\ h = [i \in DOMAIN h |-> h[i]]
        OBVIOUS
      <3>3. DOMAIN k = 0..n /\ k = [i \in DOMAIN k |-> k[i]]
        OBVIOUS
      <3>4. h = k
        <4> HIDE DEF h, k
        <4> QED
          BY <3>1, <3>2, <3>3
      <3> QED
        BY <3>4
    <2> HIDE DEF h
    <2> QED
      BY <2>4
  <1>3. 0..N \subseteq S
    <2>1. \A n \in 1..N : n - 1 \in S => n \in S
      BY <1>2
    <2> HIDE DEF S, N
    <2> QED
      BY <1>1, <2>1, NatSetInduction DEF N
  <1>4. \E f : Upto(f, N)
    <2>1. N \in S
      BY <1>3
    <2> HIDE DEF Upto
    <2> QED
      BY <2>1 DEF S
  <1> DEFINE T == CHOOSE f : Upto(f, N)
  <1>5. Upto(T, N)
    BY <1>4
  <1>6. Acyclic(parent) <=> T[N] = DOMAIN parent
    BY DEF Acyclic, Lower, Start
  <1> HIDE DEF T
  <1>7. T[0] = Start /\ \A n \in 1..N : T[n] = Lower(parent, T[n - 1])
    BY <1>5
  <1> QED
    BY <1>6, <1>7 DEF ReachStages, Start

\* What is true of the rows of the paths up to length n.
Sound(parent, rows, n) ==
  /\ \A g \in DOMAIN parent : Row(g, g, 0) \in rows
  /\ n > 0 => \A g \in DOMAIN parent : parent[g] # Root => Row(parent[g], g, 1) \in rows
  /\ \A r \in rows : /\ r = Row(r.anc, r.desc, r.depth)
                     /\ r.desc \in DOMAIN parent /\ r.depth \in 0..n
                     /\ r.depth = 0 => r.anc = r.desc
  /\ \A r \in rows : r.depth # 0 =>
       \E q \in rows : /\ q.desc = r.desc /\ q.depth = r.depth - 1
                       /\ parent[q.anc] # Root /\ r.anc = parent[q.anc]
  /\ \A q, r \in rows : q.desc = r.desc /\ q.depth = r.depth => q = r
  /\ \A r \in rows : r.depth < n /\ parent[r.anc] # Root =>
       Row(parent[r.anc], r.desc, r.depth + 1) \in rows

\* One length more.
LEMMA LongerIsSound ==
  ASSUME NEW parent, NEW rows, NEW n \in Nat, n > 0, Sound(parent, rows, n - 1)
  PROVE  Sound(parent, Longer(parent, rows, n), n)
  <1> DEFINE more == Longer(parent, rows, n)
  <1>1. rows \subseteq more
    BY DEF Longer
  <1>2. ASSUME NEW r \in more, r \notin rows
        PROVE  /\ r = Row(r.anc, r.desc, r.depth) /\ r.depth = n
               /\ \E q \in rows : /\ q.desc = r.desc /\ q.depth = r.depth - 1
                                  /\ parent[q.anc] # Root /\ r.anc = parent[q.anc]
    <2>1. PICK q \in rows : /\ q.depth = n - 1 /\ parent[q.anc] # Root
                            /\ r = Row(parent[q.anc], q.desc, n)
      BY <1>2 DEF Longer
    <2>2. r.anc = parent[q.anc] /\ r.desc = q.desc /\ r.depth = n
      BY <2>1, RowFields
    <2> QED
      BY <2>1, <2>2
  <1>3. ASSUME NEW q \in rows, q.depth = n - 1, parent[q.anc] # Root
        PROVE  Row(parent[q.anc], q.desc, n) \in more
    BY <1>3 DEF Longer
  <1> HIDE DEF more
  <1>4. \A g \in DOMAIN parent : Row(g, g, 0) \in more
    BY <1>1 DEF Sound
  <1>5. ASSUME NEW g \in DOMAIN parent, parent[g] # Root
        PROVE  Row(parent[g], g, 1) \in more
    <2>1. CASE n = 1
      <3>1. Row(g, g, 0) \in rows
        BY DEF Sound
      <3>2. Row(g, g, 0).depth = n - 1 /\ Row(g, g, 0).anc = g /\ Row(g, g, 0).desc = g
        BY <2>1, RowFields
      <3> QED
        BY <3>1, <3>2, <1>3, <1>5, <2>1
    <2>2. CASE n # 1
      <3>1. n - 1 > 0
        BY <2>2
      <3> QED
        BY <3>1, <1>1, <1>5 DEF Sound
    <2> QED
      BY <2>1, <2>2
  <1>6. ASSUME NEW r \in more
        PROVE  /\ r = Row(r.anc, r.desc, r.depth)
               /\ r.desc \in DOMAIN parent /\ r.depth \in 0..n
               /\ r.depth = 0 => r.anc = r.desc
               /\ r \in rows <=> r.depth # n
               /\ r.depth # 0 =>
                    \E q \in rows : /\ q.desc = r.desc /\ q.depth = r.depth - 1
                                    /\ parent[q.anc] # Root /\ r.anc = parent[q.anc]
    <2>1. CASE r \in rows
      <3>1. /\ r = Row(r.anc, r.desc, r.depth)
            /\ r.desc \in DOMAIN parent /\ r.depth \in 0..(n - 1)
            /\ r.depth = 0 => r.anc = r.desc
        BY <2>1 DEF Sound
      <3>2. r.depth # 0 =>
              \E q \in rows : /\ q.desc = r.desc /\ q.depth = r.depth - 1
                              /\ parent[q.anc] # Root /\ r.anc = parent[q.anc]
        BY <2>1 DEF Sound
      <3>3. r.depth \in 0..n /\ r.depth # n
        BY <3>1
      <3> QED
        BY <2>1, <3>1, <3>2, <3>3
    <2>2. CASE r \notin rows
      <3>1. /\ r = Row(r.anc, r.desc, r.depth) /\ r.depth = n
            /\ \E q \in rows : /\ q.desc = r.desc /\ q.depth = r.depth - 1
                               /\ parent[q.anc] # Root /\ r.anc = parent[q.anc]
        BY <1>2, <2>2
      <3>2. r.desc \in DOMAIN parent
        <4>1. PICK q \in rows : q.desc = r.desc
          BY <3>1
        <4> QED
          BY <4>1 DEF Sound
      <3>3. r.depth \in 0..n /\ r.depth # 0
        BY <3>1
      <3> QED
        BY <2>2, <3>1, <3>2, <3>3
    <2> QED
      BY <2>1, <2>2
  <1>7. ASSUME NEW q \in more, NEW r \in more, q.desc = r.desc, q.depth = r.depth
        PROVE  q = r
    <2>1. CASE q.depth # n
      BY <2>1, <1>6, <1>7 DEF Sound
    <2>2. CASE q.depth = n
      <3> n # 0 /\ r.depth = n
        BY <1>7, <2>2
      <3>1. PICK x \in rows : x.desc = q.desc /\ x.depth = n - 1 /\ q.anc = parent[x.anc]
        BY <1>6, <2>2
      <3>2. PICK y \in rows : y.desc = q.desc /\ y.depth = n - 1 /\ r.anc = parent[y.anc]
        <4>1. \E y \in rows : y.desc = r.desc /\ y.depth = r.depth - 1 /\ r.anc = parent[y.anc]
          BY <1>6
        <4> QED
          BY <4>1, <1>7
      <3>3. x = y
        BY <3>1, <3>2 DEF Sound
      <3>4. q.anc = r.anc
        BY <3>1, <3>2, <3>3
      <3>5. q = Row(q.anc, q.desc, q.depth) /\ r = Row(r.anc, r.desc, r.depth)
        BY <1>6
      <3> QED
        BY <3>4, <3>5, <1>7
    <2> QED
      BY <2>1, <2>2
  <1>8. \A r \in more : r.depth # 0 =>
          \E q \in more : /\ q.desc = r.desc /\ q.depth = r.depth - 1
                          /\ parent[q.anc] # Root /\ r.anc = parent[q.anc]
    BY <1>1, <1>6
  <1>9. ASSUME NEW r \in more, r.depth < n, parent[r.anc] # Root
        PROVE  Row(parent[r.anc], r.desc, r.depth + 1) \in more
    <2>1. r \in rows /\ r.depth \in 0..(n - 1)
      BY <1>6, <1>9 DEF Sound
    <2>2. CASE r.depth = n - 1
      BY <1>3, <1>9, <2>1, <2>2
    <2>3. CASE r.depth # n - 1
      <3>1. r.depth < n - 1
        BY <2>1, <2>3
      <3> QED
        BY <1>1, <1>9, <2>1, <3>1 DEF Sound
    <2> QED
      BY <2>2, <2>3
  <1>10. Sound(parent, more, n)
    BY <1>4, <1>5, <1>6, <1>7, <1>8, <1>9 DEF Sound
  <1> QED
    BY <1>10 DEF more

\* The rows of a hierarchy of any shape, also of one with cycles.
LEMMA PathsAreSound ==
  ASSUME NEW parent, IsFiniteSet(DOMAIN parent)
  PROVE  /\ Cardinality(DOMAIN parent) \in Nat
         /\ Sound(parent, PathsOf(parent), Cardinality(DOMAIN parent))
         /\ \A g \in DOMAIN parent : parent[g] # Root => Row(parent[g], g, 1) \in PathsOf(parent)
  <1> DEFINE N == Cardinality(DOMAIN parent)
  <1>1. N \in Nat
    BY FS_CardinalityType
  <1>2. PICK p : PathStages(parent, p)
    BY <1>1, PathsByLength
  <1> DEFINE S == {n \in 0..N : Sound(parent, p[n], n)}
  <1>3. 0 \in S
    <2>1. ASSUME NEW r \in p[0]
          PROVE  /\ r = Row(r.anc, r.desc, r.depth) /\ r.desc \in DOMAIN parent
                 /\ r.depth = 0 /\ r.anc = r.desc
      <3>1. PICK g \in DOMAIN parent : r = Row(g, g, 0)
        BY <1>2 DEF PathStages
      <3> QED
        BY <3>1, RowFields
    <2>2. \A g \in DOMAIN parent : Row(g, g, 0) \in p[0]
      BY <1>2 DEF PathStages
    <2>3. \A q, r \in p[0] : q.desc = r.desc /\ q.depth = r.depth => q = r
      <3> SUFFICES ASSUME NEW q \in p[0], NEW r \in p[0], q.desc = r.desc PROVE q = r
        OBVIOUS
      <3>1. q = Row(q.anc, q.desc, q.depth) /\ q.depth = 0 /\ q.anc = q.desc
        BY <2>1
      <3>2. r = Row(r.anc, r.desc, r.depth) /\ r.depth = 0 /\ r.anc = r.desc
        BY <2>1
      <3> QED
        BY <3>1, <3>2
    <2>4. ~ (0 > 0) /\ 0 \in 0..0 /\ 0 \in 0..N
      BY <1>1
    <2>5. \A r \in p[0] : ~ (r.depth < 0)
      BY <2>1
    <2>6. Sound(parent, p[0], 0)
      BY <2>1, <2>2, <2>3, <2>4, <2>5 DEF Sound
    <2> QED
      BY <2>4, <2>6
  <1>4. ASSUME NEW n \in 1..N, n - 1 \in S PROVE n \in S
    <2>1. n \in Nat /\ n > 0 /\ n \in 0..N
      BY <1>1
    <2>2. p[n] = Longer(parent, p[n - 1], n)
      BY <1>2 DEF PathStages
    <2>3. Sound(parent, p[n - 1], n - 1)
      BY <1>4
    <2>4. Sound(parent, p[n], n)
      BY <2>1, <2>2, <2>3, LongerIsSound
    <2> QED
      BY <2>1, <2>4
  <1>5. N \in S
    <2>1. \A n \in 1..N : n - 1 \in S => n \in S
      BY <1>4
    <2>2. N \in 0..N
      BY <1>1
    <2> HIDE DEF S, N
    <2> QED
      BY <1>1, <1>3, <2>1, <2>2, NatSetInduction
  <1>6. Sound(parent, PathsOf(parent), N)
    BY <1>5, <1>2 DEF PathStages
  <1>7. ASSUME NEW g \in DOMAIN parent PROVE N > 0
    <2>1. N # 0
      BY FS_EmptySet
    <2> QED
      BY <1>1, <2>1
  <1> QED
    BY <1>1, <1>6, <1>7 DEF Sound

\* From the roots down every group of an acyclic hierarchy gets a rank that
\* is greater than its parent's, and every parent is one of its groups.
Ranks(parent, rank) ==
  /\ rank \in [DOMAIN parent -> Nat]
  /\ \A g \in DOMAIN parent :
       /\ rank[g] \in 1..Cardinality(DOMAIN parent)
       /\ parent[g] # Root => parent[g] \in DOMAIN parent /\ rank[parent[g]] < rank[g]

\* A hierarchy without a cycle has a rank that grows from parent to child.
LEMMA AcyclicRank ==
  ASSUME NEW parent, IsFiniteSet(DOMAIN parent), Acyclic(parent)
  PROVE  \E rank : Ranks(parent, rank)
  <1> DEFINE D == DOMAIN parent
             N == Cardinality(D)
  <1>1. N \in Nat
    BY FS_CardinalityType
  <1>2. PICK r : ReachStages(parent, r)
    BY <1>1, ReachedByLevel
  <1>3. \A n \in 1..N : r[n] = Lower(parent, r[n - 1])
    BY <1>2 DEF ReachStages
  <1> DEFINE Within(g) == {n \in 0..N : g \in r[n]}
             level == [g \in D |-> CHOOSE n \in Within(g) : \A m \in Within(g) : n <= m]
  <1>4. ASSUME NEW g \in D
        PROVE  /\ level[g] \in 0..N /\ g \in r[level[g]]
               /\ \A m \in 0..N : g \in r[m] => level[g] <= m
    <2>1. N \in Within(g)
      BY <1>1, <1>2 DEF ReachStages
    <2>2. \E n \in Within(g) : \A m \in Within(g) : n <= m
      <3>1. Within(g) \subseteq Nat
        BY <1>1
      <3> HIDE DEF Within
      <3> QED
        BY <2>1, <3>1, LeastNumber
    <2>3. level[g] \in Within(g) /\ \A m \in Within(g) : level[g] <= m
      <3> HIDE DEF Within
      <3> QED
        BY <2>2
    <2> QED
      BY <2>3
  <1> HIDE DEF level
  <1>5. level \in [D -> Nat]
    <2>1. \A g \in D : level[g] \in Nat
      BY <1>4
    <2> QED
      BY <2>1 DEF level
  <1>6. ASSUME NEW g \in D, parent[g] # Root
        PROVE  parent[g] \in D /\ level[parent[g]] < level[g]
    <2> DEFINE n == level[g]
    <2>1. n \in 0..N /\ g \in r[n]
      BY <1>4
    <2>2. n # 0
      BY <2>1, <1>2 DEF ReachStages
    <2>3. n \in 1..N /\ n - 1 \in 0..N /\ ~ (n <= n - 1)
      BY <1>1, <2>1, <2>2
    <2>4. g \notin r[n - 1]
      BY <1>4, <2>3
    <2>5. parent[g] \in r[n - 1]
      BY <1>3, <1>6, <2>1, <2>3, <2>4 DEF Lower
    <2>6. \A m \in 0..N : r[m] \subseteq D
      <3> DEFINE S == {m \in 0..N : r[m] \subseteq D}
      <3>1. 0 \in S
        BY <1>1, <1>2 DEF ReachStages
      <3>2. \A m \in 1..N : m - 1 \in S => m \in S
        <4> SUFFICES ASSUME NEW m \in 1..N, r[m - 1] \subseteq D
                     PROVE  m \in 0..N /\ r[m] \subseteq D
          OBVIOUS
        <4> QED
          BY <1>1, <1>3 DEF Lower
      <3>3. 0..N \subseteq S
        <4> HIDE DEF S, N
        <4> QED
          BY <1>1, <3>1, <3>2, NatSetInduction
      <3> QED
        BY <3>3
    <2>7. parent[g] \in D
      BY <2>3, <2>5, <2>6
    <2>8. level[parent[g]] <= n - 1 /\ level[parent[g]] \in Nat
      BY <1>4, <1>5, <2>3, <2>5, <2>7
    <2> QED
      BY <2>3, <2>7, <2>8
  <1>7. ASSUME NEW g \in D PROVE level[g] \in 1..N
    <2>1. level[g] \in 0..N /\ g \in r[level[g]]
      BY <1>4
    <2>2. level[g] # 0
      BY <2>1, <1>2 DEF ReachStages
    <2> QED
      BY <1>1, <2>1, <2>2
  <1> QED
    BY <1>5, <1>6, <1>7 DEF Ranks

-----------------------------------------------------------------------------
(* What the queries return, for any set of rows that is sound.              *)

\* A set of numbers that holds, with a number, every smaller one is an
\* interval.
LEMMA DownwardClosed ==
  ASSUME NEW N \in Nat, NEW S, S \subseteq 0..N,
         \A d \in S : d # 0 => d - 1 \in S
  PROVE  \E k \in Nat : S = 0..(k - 1)
  <1> DEFINE Out == {x \in Nat : x \notin S}
  <1>1. PICK k \in Out : \A y \in Out : k <= y
    <2>1. N + 1 \in Out
      OBVIOUS
    <2> HIDE DEF Out
    <2> QED
      BY <2>1, LeastNumber DEF Out
  <1>2. k \in Nat /\ k \notin S
    OBVIOUS
  <1>3. ASSUME NEW x \in 0..(k - 1) PROVE x \in S
    <2>1. x \in Nat /\ ~ (k <= x)
      BY <1>2
    <2> QED
      BY <1>1, <2>1
  <1>4. ASSUME NEW x \in S PROVE x \in 0..(k - 1)
    <2> SUFFICES ASSUME ~ (x < k) PROVE FALSE
      BY <1>2
    <2> DEFINE Over == {y \in S : y > k}
    <2>1. x \in Over /\ Over \subseteq Nat
      <3>1. S \subseteq Nat
        OBVIOUS
      <3>2. x \in Nat /\ x # k
        BY <1>2, <3>1
      <3>3. x > k
        BY <1>2, <3>2
      <3> QED
        BY <3>1, <3>3
    <2>2. PICK y \in Over : \A z \in Over : y <= z
      <3> HIDE DEF Over
      <3> QED
        BY <2>1, LeastNumber
    <2>3. y \in Nat /\ y > k /\ y # 0 /\ y - 1 \in S
      BY <1>2
    <2>4. y - 1 # k
      BY <1>2, <2>3
    <2>5. y - 1 \in Over
      BY <1>2, <2>3, <2>4
    <2> QED
      BY <2>2, <2>3, <2>5
  <1> QED
    BY <1>2, <1>3, <1>4

\* c lists the ancestors of p, from the root down to p itself.
Lists(T, p, c) ==
  /\ Len(c) \in Nat /\ c \in Seq(Range(c))
  /\ \A a : \A n \in Nat : Row(a, p, n) \in T <=> n < Len(c) /\ a = c[Len(c) - n]

\* The ancestors that are read for p are those of its rows.
LEMMA ChainIs ==
  ASSUME NEW parent, NEW T, NEW N \in Nat, Sound(parent, T, N), NEW p
  PROVE  /\ Lists(T, p, Chain(T, p))
         /\ \A a \in Range(Chain(T, p)) : \E r \in T : r.desc = p /\ r.anc = a
  <1> DEFINE up == {r \in T : r.desc = p}
             Depths == {r.depth : r \in up}
             depth == [r \in up |-> r.depth]
  <1>1. \A r \in up : r.depth \in 0..N
    BY DEF Sound
  <1>2. \A q, r \in up : q.depth = r.depth => q = r
    BY DEF Sound
  <1>3. IsFiniteSet(up)
    <2>1. depth \in Injection(up, 0..N)
      BY <1>1, <1>2 DEF Injection, IsInjective
    <2>2. IsFiniteSet(0..N)
      BY FS_Interval
    <2> HIDE DEF depth, up
    <2> QED
      BY <2>1, <2>2, FS_Injection
  <1>4. PICK k \in Nat : Depths = 0..(k - 1)
    <2>1. Depths \subseteq 0..N
      BY <1>1
    <2>2. ASSUME NEW d \in Depths, d # 0 PROVE d - 1 \in Depths
      <3>1. PICK r \in up : r.depth = d
        OBVIOUS
      <3>2. PICK q \in T : q.desc = r.desc /\ q.depth = r.depth - 1
        BY <2>2, <3>1 DEF Sound
      <3> QED
        BY <3>1, <3>2
    <2> HIDE DEF Depths
    <2> QED
      BY <2>1, <2>2, DownwardClosed
  <1>5. Cardinality(up) = k
    <2>1. depth \in Bijection(up, 0..(k - 1))
      <3>1. depth \in [up -> 0..(k - 1)]
        BY <1>4
      <3>2. \A d \in 0..(k - 1) : \E r \in up : depth[r] = d
        <4> SUFFICES ASSUME NEW d \in 0..(k - 1) PROVE \E r \in up : r.depth = d
          OBVIOUS
        <4> QED
          BY <1>4
      <3>3. \A q, r \in up : depth[q] = depth[r] => q = r
        BY <1>2
      <3> HIDE DEF depth, up
      <3> QED
        BY <3>1, <3>2, <3>3 DEF Bijection, Injection, Surjection, IsInjective
    <2>2. Cardinality(0..(k - 1)) = k
      BY FS_Interval
    <2> HIDE DEF depth, up
    <2> QED
      BY <1>3, <2>1, <2>2, FS_Bijection DEF ExistsBijection
  <1> DEFINE C == Cardinality(up)
  <1>6. Chain(T, p) = [i \in 1..C |-> (CHOOSE r \in up : r.depth = C - i).anc]
    BY DEF Chain
  <1>7. ASSUME NEW a \in Range(Chain(T, p)) PROVE \E r \in T : r.desc = p /\ r.anc = a
    <2>1. PICK i \in 1..C : a = (CHOOSE r \in up : r.depth = C - i).anc
      BY <1>6 DEF Range
    <2>2. \E r \in up : r.depth = C - i
      <3>1. C \in Nat /\ Depths = 0..(C - 1)
        BY <1>4, <1>5
      <3> HIDE DEF C
      <3>2. C - i \in 0..(C - 1)
        BY <3>1
      <3> QED
        BY <3>1, <3>2
    <2>3. (CHOOSE r \in up : r.depth = C - i) \in up
      BY <2>2
    <2> QED
      BY <2>1, <2>3
  <1> DEFINE c == Chain(T, p)
  <1>8. C \in Nat /\ Depths = 0..(C - 1) /\ DOMAIN c = 1..C /\ c = [i \in DOMAIN c |-> c[i]]
    BY <1>4, <1>5, <1>6
  <1>9. c \in Seq(Range(c)) /\ Len(c) = C
    <2> HIDE DEF c, C
    <2>1. c \in [1..C -> Range(c)]
      BY <1>8 DEF Range
    <2>2. c \in Seq(Range(c))
      BY <1>8, <2>1
    <2>3. Len(c) \in Nat /\ 1..Len(c) = 1..C
      BY <1>8, <2>2, LenProperties
    <2> QED
      BY <1>8, <2>2, <2>3
  <1>10. ASSUME NEW r \in up PROVE r.depth \in 0..(C - 1) /\ r.anc = c[C - r.depth]
    <2>1. r.depth \in Depths
      OBVIOUS
    <2>2. r.depth \in 0..(C - 1)
      BY <1>8, <2>1
    <2>3. C - r.depth \in 1..C /\ C - (C - r.depth) = r.depth
      BY <1>8, <2>2
    <2>4. c[C - r.depth] = (CHOOSE q \in up : q.depth = r.depth).anc
      <3> DEFINE i == C - r.depth
      <3>1. i \in 1..C /\ C - i = r.depth
        BY <2>3
      <3> HIDE DEF i, up, C
      <3>2. c[i] = (CHOOSE q \in up : q.depth = C - i).anc
        BY <1>6, <3>1
      <3> QED
        BY <3>1, <3>2 DEF i
    <2>5. (CHOOSE q \in up : q.depth = r.depth) = r
      BY <1>2
    <2> QED
      BY <2>2, <2>4, <2>5
  <1>11. ASSUME NEW a, NEW n \in Nat
         PROVE  Row(a, p, n) \in T <=> n < C /\ a = c[C - n]
    <2> HIDE DEF c, C
    <2>1. ASSUME Row(a, p, n) \in T PROVE n < C /\ a = c[C - n]
      <3>1. Row(a, p, n) \in up /\ Row(a, p, n).depth = n /\ Row(a, p, n).anc = a
        BY <2>1, RowFields
      <3>2. n \in 0..(C - 1) /\ a = c[C - n]
        BY <1>10, <3>1
      <3> QED
        BY <1>8, <3>2
    <2>2. ASSUME n < C, a = c[C - n] PROVE Row(a, p, n) \in T
      <3>1. n \in Depths
        BY <1>8, <2>2
      <3>2. PICK r \in up : r.depth = n
        BY <3>1
      <3>3. r = Row(r.anc, r.desc, r.depth) /\ r.desc = p /\ r \in T
        BY DEF Sound
      <3>4. r.anc = a
        BY <1>10, <2>2, <3>2
      <3> QED
        BY <3>2, <3>3, <3>4
    <2> QED
      BY <2>1, <2>2
  <1>12. Lists(T, p, Chain(T, p))
    BY <1>8, <1>9, <1>11 DEF Lists
  <1> QED
    BY <1>7, <1>12

\* The trees that an update moves, each with the one to be placed before it:
\* the nearest of the moved ones above the new parent, if there is another.
LEMMA DependencyIs ==
  ASSUME NEW parent, NEW T, NEW N \in Nat, Sound(parent, T, N), NEW posted,
         NEW g \in EditTrees(T, posted)
  PROVE  LET trees == EditTrees(T, posted)
             d == Dependency(T, posted)[g]
         IN  \/ /\ d = Root
                /\ \A r \in T : r.desc = posted[g] => r.anc \notin trees \ {g}
             \/ /\ d \in trees
                /\ \E r \in T : /\ r.desc = posted[g] /\ r.anc = d
                                /\ \A q \in T : q.desc = posted[g] /\ q.depth < r.depth =>
                                     q.anc \notin trees \ {g}
  <1> DEFINE trees == EditTrees(T, posted)
             found == {r \in T : \E v \in trees : r.desc = posted[v] /\ r.anc \in trees \ {v}}
             above == {r \in found : r.desc = posted[g]}
             nearest == CHOOSE r \in above : \A q \in above : r.depth <= q.depth
             d == Dependency(T, posted)[g]
  <1>1. d = IF above = {} THEN Root ELSE nearest.anc
    BY DEF Dependency
  <1>2. ASSUME NEW r \in T, r.desc = posted[g], r.anc \in trees \ {g} PROVE r \in above
    BY <1>2
  <1>3. CASE above = {}
    BY <1>1, <1>2, <1>3
  <1>4. CASE above # {}
    <2> DEFINE Depths == {r.depth : r \in above}
    <2>1. \A r \in above : r \in T /\ r.depth \in Nat /\ r.desc = posted[g] /\ r.anc \in trees
      BY DEF Sound
    <2>2. \E x \in Depths : \A y \in Depths : x <= y
      <3>1. Depths \subseteq Nat /\ Depths # {}
        BY <1>4, <2>1
      <3> HIDE DEF Depths
      <3> QED
        BY <3>1, LeastNumber
    <2>3. \E r \in above : \A q \in above : r.depth <= q.depth
      BY <2>2
    <2>4. nearest \in above /\ \A q \in above : nearest.depth <= q.depth
      <3> HIDE DEF above
      <3> QED
        BY <2>3
    <2>5. d = nearest.anc
      BY <1>1, <1>4
    <2> HIDE DEF nearest, above, d, trees
    <2>6. nearest \in T /\ nearest.desc = posted[g] /\ nearest.anc = d /\ d \in trees
      BY <2>1, <2>4, <2>5
    <2>7. ASSUME NEW q \in T, q.desc = posted[g], q.depth < nearest.depth
          PROVE  q.anc \notin trees \ {g}
      <3> SUFFICES ASSUME q.anc \in trees \ {g} PROVE FALSE
        OBVIOUS
      <3>1. q \in above
        BY <1>2, <2>7
      <3>2. nearest.depth <= q.depth /\ q.depth \in Nat /\ nearest.depth \in Nat
        BY <2>1, <2>4, <3>1
      <3> QED
        BY <2>7, <3>2
    <2>8. d \in trees
          /\ \E r \in T : /\ r.desc = posted[g] /\ r.anc = d
                          /\ \A q \in T : q.desc = posted[g] /\ q.depth < r.depth =>
                               q.anc \notin trees \ {g}
      BY <2>6, <2>7
    <2> QED
      BY <2>8 DEF d, trees
  <1> QED
    BY <1>3, <1>4

-----------------------------------------------------------------------------
(* Orders of the loops that sort the forms.                                 *)

\* The sequences of a finite set hold each of its members at one place.
LEMMA OrderIs ==
  ASSUME NEW dep, IsFiniteSet(DOMAIN dep), NEW s \in Orders(dep)
  PROVE  LET n == Cardinality(DOMAIN dep)
         IN  /\ n \in Nat /\ s \in [1..n -> DOMAIN dep]
             /\ \A i, j \in 1..n : s[i] = s[j] => i = j
             /\ \A g \in DOMAIN dep : \E i \in 1..n : s[i] = g
             /\ \A i, j \in 1..n : dep[s[j]] = s[i] => i < j
  <1> DEFINE n == Cardinality(DOMAIN dep)
  <1>1. n \in Nat
    BY FS_CardinalityType
  <1>2. s \in [1..n -> DOMAIN dep] /\ \A i, j \in 1..n : s[i] = s[j] => i = j
    BY DEF Orders, SetToSeqs
  <1>3. \A i, j \in 1..n : dep[s[j]] = s[i] => i < j
    <2>1. DOMAIN s = 1..n
      BY <1>2
    <2> HIDE DEF n
    <2> QED
      BY <2>1 DEF Orders
  <1>4. s \in Surjection(1..n, DOMAIN dep)
    <2>1. s \in Injection(1..n, DOMAIN dep)
      BY <1>2 DEF Injection, IsInjective
    <2>2. Cardinality(1..n) = n
      BY <1>1, FS_Interval
    <2> QED
      BY <2>1, <2>2, FS_Injection
  <1>5. \A g \in DOMAIN dep : \E i \in 1..n : s[i] = g
    BY <1>4 DEF Surjection
  <1> QED
    BY <1>1, <1>2, <1>3, <1>5

\* s lists the set S by increasing keys.
Sorts(s, S, key) ==
  s \in SetToSeqs(S) /\ \A i, j \in 1..Cardinality(S) : key[s[i]] < key[s[j]] => i < j

\* A finite set can be listed by increasing keys.
LEMMA SortedOrderExists ==
  ASSUME NEW S0, IsFiniteSet(S0), NEW key \in [S0 -> Nat]
  PROVE  \E s : Sorts(s, S0, key)
  <1> DEFINE N == Cardinality(S0)
             K == {n \in 0..N : \A S \in SUBSET S0 : Cardinality(S) = n => \E s : Sorts(s, S, key)}
  <1>1. N \in Nat
    BY FS_CardinalityType
  <1>2. 0 \in K
    <2> SUFFICES ASSUME NEW S \in SUBSET S0, Cardinality(S) = 0
                 PROVE  \E s : Sorts(s, S, key)
      BY <1>1
    <2> DEFINE s == [i \in 1..0 |-> 0]
    <2>1. 1..0 = {}
      OBVIOUS
    <2>2. s \in [1..0 -> S]
      BY <2>1
    <2>3. Sorts(s, S, key)
      BY <2>1, <2>2 DEF Sorts, SetToSeqs
    <2> QED
      BY <2>3
  <1>3. ASSUME NEW n \in 1..N, n - 1 \in K PROVE n \in K
    <2> SUFFICES ASSUME NEW S \in SUBSET S0, Cardinality(S) = n
                 PROVE  \E s : Sorts(s, S, key)
      BY <1>1
    <2>1. IsFiniteSet(S)
      BY FS_Subset
    <2>2. S # {}
      BY <1>1, <2>1, FS_EmptySet
    <2>3. PICK m \in S : \A x \in S : key[m] <= key[x]
      <3> DEFINE Keys == {key[x] : x \in S}
      <3>1. Keys \subseteq Nat /\ Keys # {}
        BY <2>2
      <3>2. \E k \in Keys : \A l \in Keys : k <= l
        <4> HIDE DEF Keys
        <4> QED
          BY <3>1, LeastNumber
      <3> QED
        BY <3>2
    <2> DEFINE R == S \ {m}
    <2>4. Cardinality(R) = n - 1
      BY <2>1, FS_RemoveElement
    <2>5. PICK r : Sorts(r, R, key)
      <3>1. R \in SUBSET S0
        OBVIOUS
      <3> QED
        BY <1>3, <2>4, <3>1
    <2> HIDE DEF R
    <2>6. /\ r \in [1..(n - 1) -> R]
          /\ \A i, j \in 1..(n - 1) : i # j => r[i] # r[j]
          /\ \A i, j \in 1..(n - 1) : key[r[i]] < key[r[j]] => i < j
      BY <2>4, <2>5 DEF Sorts, SetToSeqs
    <2> DEFINE s == [i \in 1..n |-> IF i = 1 THEN m ELSE r[i - 1]]
    <2>7. \A i \in 1..n : i # 1 => i - 1 \in 1..(n - 1)
      OBVIOUS
    <2>8. /\ s[1] = m
          /\ \A i \in 1..n : i # 1 => s[i] = r[i - 1] /\ s[i] \in R
      BY <2>6, <2>7
    <2>9. R \subseteq S /\ m \notin R
      BY DEF R
    <2>10. s \in [1..n -> S]
      <3>1. \A i \in 1..n : s[i] \in S
        BY <2>8, <2>9
      <3> QED
        BY <3>1
    <2> HIDE DEF s
    <2>11. ASSUME NEW i \in 1..n, NEW j \in 1..n, i # j PROVE s[i] # s[j]
      <3>1. CASE i = 1
        BY <3>1, <2>8, <2>9, <2>11
      <3>2. CASE j = 1
        BY <3>2, <2>8, <2>9, <2>11
      <3>3. CASE i # 1 /\ j # 1
        <4>1. i - 1 # j - 1
          BY <2>11
        <4> QED
          BY <3>3, <4>1, <2>6, <2>7, <2>8
      <3> QED
        BY <3>1, <3>2, <3>3
    <2>12. ASSUME NEW i \in 1..n, NEW j \in 1..n, key[s[i]] < key[s[j]] PROVE i < j
      <3>1. key[s[i]] \in Nat /\ key[s[j]] \in Nat /\ key[m] \in Nat
        BY <2>10
      <3>2. j # 1
        <4>1. key[m] <= key[s[i]]
          BY <2>3, <2>10
        <4> QED
          BY <4>1, <3>1, <2>8, <2>12
      <3>3. CASE i = 1
        BY <3>2, <3>3
      <3>4. CASE i # 1
        <4>1. i - 1 < j - 1
          BY <2>6, <2>7, <2>8, <2>12, <3>2, <3>4
        <4> QED
          BY <4>1
      <3> QED
        BY <3>3, <3>4
    <2>13. Sorts(s, S, key)
      BY <2>10, <2>11, <2>12 DEF Sorts, SetToSeqs
    <2> QED
      BY <2>13
  <1>4. N \in K
    <2>1. \A n \in 1..N : n - 1 \in K => n \in K
      BY <1>3
    <2>2. N \in 0..N
      BY <1>1
    <2> HIDE DEF K, N
    <2> QED
      BY <1>1, <1>2, <2>1, <2>2, NatSetInduction
  <1> QED
    BY <1>4

\* The loops end when what a form waits for always has a lower rank.
LEMMA OrdersExist ==
  ASSUME NEW dep, IsFiniteSet(DOMAIN dep), NEW rank \in [DOMAIN dep -> Nat],
         \A g \in DOMAIN dep : dep[g] \in DOMAIN dep => rank[dep[g]] < rank[g],
         Root \notin DOMAIN dep
  PROVE  Orders(dep) # {}
  <1> DEFINE n == Cardinality(DOMAIN dep)
             key == [g \in DOMAIN dep |-> IF dep[g] = Root THEN 0 ELSE rank[g] + 1]
  <1>1. key \in [DOMAIN dep -> Nat]
    OBVIOUS
  <1>2. \A g \in DOMAIN dep : dep[g] = Root => key[g] = 0
    OBVIOUS
  <1>3. \A g \in DOMAIN dep : dep[g] # Root => key[g] = rank[g] + 1
    OBVIOUS
  <1> HIDE DEF key
  <1>4. PICK s : Sorts(s, DOMAIN dep, key)
    BY <1>1, SortedOrderExists
  <1>5. /\ s \in SetToSeqs(DOMAIN dep) /\ s \in [1..n -> DOMAIN dep] /\ DOMAIN s = 1..n
        /\ \A i, j \in 1..n : key[s[i]] < key[s[j]] => i < j
    BY <1>4 DEF Sorts, SetToSeqs
  <1> HIDE DEF n
  <1>6. ASSUME NEW i \in 1..n, NEW j \in 1..n
        PROVE  /\ dep[s[j]] = s[i] => i < j
               /\ dep[s[i]] = Root /\ dep[s[j]] # Root => i < j
    <2>1. s[i] \in DOMAIN dep /\ s[j] \in DOMAIN dep
      BY <1>5
    <2>2. rank[s[i]] \in Nat /\ rank[s[j]] \in Nat
      BY <2>1
    <2>3. ASSUME dep[s[j]] = s[i] PROVE i < j
      <3>1. dep[s[j]] # Root /\ rank[s[i]] < rank[s[j]]
        BY <2>1, <2>3
      <3>2. key[s[j]] = rank[s[j]] + 1
        BY <2>1, <3>1, <1>3
      <3>3. key[s[i]] = 0 \/ key[s[i]] = rank[s[i]] + 1
        BY <2>1, <1>2, <1>3
      <3>4. key[s[i]] < key[s[j]]
        BY <2>2, <3>1, <3>2, <3>3
      <3> QED
        BY <3>4, <1>5
    <2>4. ASSUME dep[s[i]] = Root, dep[s[j]] # Root PROVE i < j
      <3>1. key[s[i]] < key[s[j]]
        BY <2>1, <2>2, <2>4, <1>2, <1>3
      <3> QED
        BY <3>1, <1>5
    <2> QED
      BY <2>3, <2>4
  <1>7. s \in Orders(dep)
    BY <1>5, <1>6 DEF Orders
  <1> QED
    BY <1>7

-----------------------------------------------------------------------------
(* A plan is tangled only by three moved trees.                             *)

\* The new ancestors of g, from those of the tree that g waits for.
NewOf(T, posted, dep, new, g) ==
  LET below == Chain(T, posted[g])
      from(m, s) == SelectInSeq(s, LAMBDA a : a = m)
  IN  IF dep[g] = Root THEN below
      ELSE new[dep[g]] \o SubSeq(below, from(dep[g], below), Len(below))

\* When the reordering loop ends, _construct_edit_ancestors gives every moved
\* tree its ancestors, and those above its new parent to one that waits for none.
LEMMA NewAncestorsIs ==
  ASSUME NEW T, NEW posted, NEW dep, IsFiniteSet(DOMAIN dep), Orders(dep) # {},
         \A g \in DOMAIN dep : dep[g] \in DOMAIN dep \cup {Root}
  PROVE  /\ DOMAIN NewAncestors(T, posted, dep) = DOMAIN dep
         /\ \A g \in DOMAIN dep :
              NewAncestors(T, posted, dep)[g] =
                NewOf(T, posted, dep, NewAncestors(T, posted, dep), g)
         /\ \A g \in DOMAIN dep : dep[g] = Root =>
              NewAncestors(T, posted, dep)[g] = Chain(T, posted[g])
  <1> DEFINE D == DOMAIN dep
             n == Cardinality(D)
             Done(f, m, s) == /\ DOMAIN f = D /\ f = [g \in DOMAIN f |-> f[g]]
                              /\ \A i \in 1..m : f[s[i]] = NewOf(T, posted, dep, f, s[i])
             new == CHOOSE f : f = [g \in D |-> NewOf(T, posted, dep, f, g)]
  <1>1. PICK s : s \in Orders(dep)
    OBVIOUS
  <1>2. /\ n \in Nat /\ s \in [1..n -> D]
        /\ \A i, j \in 1..n : s[i] = s[j] => i = j
        /\ \A g \in D : \E i \in 1..n : s[i] = g
        /\ \A i, j \in 1..n : dep[s[j]] = s[i] => i < j
    BY <1>1, OrderIs
  <1> HIDE DEF n
  <1> DEFINE K == {m \in 0..n : \E f : Done(f, m, s)}
  <1>3. 0 \in K
    <2>1. Done([g \in D |-> 0], 0, s)
      BY <1>2
    <2> HIDE DEF Done
    <2> QED
      BY <1>2, <2>1
  <1>4. ASSUME NEW m \in 1..n, m - 1 \in K PROVE m \in K
    <2>1. PICK f : Done(f, m - 1, s)
      BY <1>4
    <2> DEFINE h == [g \in D |-> IF g = s[m] THEN NewOf(T, posted, dep, f, g) ELSE f[g]]
    <2>2. DOMAIN h = D /\ h = [g \in DOMAIN h |-> h[g]]
      OBVIOUS
    <2>3. \A g \in D : g # s[m] => h[g] = f[g]
      OBVIOUS
    <2>4. s[m] \in D /\ h[s[m]] = NewOf(T, posted, dep, f, s[m])
      BY <1>2
    <2> HIDE DEF h
    <2>5. ASSUME NEW i \in 1..m PROVE h[s[i]] = NewOf(T, posted, dep, h, s[i])
      <3>1. i \in 1..n /\ s[i] \in D /\ dep[s[i]] \in D \cup {Root}
        BY <1>2
      <3>2. dep[s[i]] # Root => dep[s[i]] # s[m]
        <4> SUFFICES ASSUME dep[s[i]] = s[m] PROVE FALSE
          OBVIOUS
        <4>1. m < i
          BY <1>2, <3>1
        <4> QED
          BY <4>1
      <3>3. dep[s[i]] # Root => h[dep[s[i]]] = f[dep[s[i]]]
        BY <2>3, <3>1, <3>2
      <3>4. NewOf(T, posted, dep, h, s[i]) = NewOf(T, posted, dep, f, s[i])
        BY <3>3 DEF NewOf
      <3>5. CASE i = m
        BY <2>4, <3>4, <3>5
      <3>6. CASE i # m
        <4>1. i \in 1..(m - 1) /\ s[i] # s[m]
          BY <1>2, <3>1, <3>6
        <4>2. f[s[i]] = NewOf(T, posted, dep, f, s[i])
          BY <2>1, <4>1
        <4> QED
          BY <2>3, <3>1, <3>4, <4>1, <4>2
      <3> QED
        BY <3>5, <3>6
    <2>6. Done(h, m, s)
      BY <2>2, <2>5
    <2> HIDE DEF Done
    <2> QED
      BY <2>6
  <1>5. n \in K
    <2>1. \A m \in 1..n : m - 1 \in K => m \in K
      BY <1>4
    <2>2. n \in 0..n
      BY <1>2
    <2> HIDE DEF K
    <2> QED
      BY <1>2, <1>3, <2>1, <2>2, NatSetInduction
  <1>6. PICK f : Done(f, n, s)
    BY <1>5
  <1>7. f = [g \in D |-> NewOf(T, posted, dep, f, g)]
    <2>1. \A g \in D : f[g] = NewOf(T, posted, dep, f, g)
      BY <1>2, <1>6
    <2>2. DOMAIN f = D /\ f = [g \in DOMAIN f |-> f[g]]
      BY <1>6
    <2> QED
      BY <2>1, <2>2
  <1>8. new = [g \in D |-> NewOf(T, posted, dep, new, g)]
    BY <1>7
  <1>9. NewAncestors(T, posted, dep) = new
    BY DEF NewAncestors, NewOf
  <1> HIDE DEF new
  <1>10. DOMAIN new = D /\ \A g \in D : dep[g] = Root => new[g] = Chain(T, posted[g])
    <2>1. \A g \in D : dep[g] = Root => NewOf(T, posted, dep, new, g) = Chain(T, posted[g])
      BY DEF NewOf
    <2> QED
      BY <1>8, <2>1
  <1>11. \A g \in D : new[g] = NewOf(T, posted, dep, new, g)
    BY <1>8
  <1> QED
    BY <1>9, <1>10, <1>11

\* One or two moved trees are never tangled: a tree h written among the
\* descendants of another one, g, does not wait for g, and g is among its
\* new ancestors, so it waits for a third.
LEMMA TangledByThree ==
  ASSUME NEW parent, NEW T, NEW N \in Nat, Sound(parent, T, N),
         NEW posted, IsFiniteSet(DOMAIN posted), Root \notin DOMAIN posted,
         Orders(Dependency(T, posted)) # {}, Tangled(EditPlan(T, posted))
  PROVE  Cardinality(DOMAIN EditPlan(T, posted).new) >= 3
  <1> DEFINE dep == Dependency(T, posted)
             new == NewAncestors(T, posted, dep)
             trees == EditTrees(T, posted)
  <1>1. DOMAIN dep = trees
    BY DEF Dependency
  <1>2. IsFiniteSet(trees)
    <2>1. trees \in SUBSET DOMAIN posted
      BY DEF EditTrees
    <2> QED
      BY <2>1, FS_Subset
  <1>3. \A g \in trees : dep[g] \in trees \cup {Root}
    BY DependencyIs
  <1>4. /\ EditPlan(T, posted).new = new
        /\ EditPlan(T, posted).desc = NewDescendants(T, dep, new)
    BY DEF EditPlan
  <1> HIDE DEF dep
  <1>5. /\ DOMAIN new = trees
        /\ \A g \in trees : dep[g] = Root => new[g] = Chain(T, posted[g])
    BY <1>1, <1>2, <1>3, NewAncestorsIs DEF dep
  <1> HIDE DEF new
  <1>a. DOMAIN EditPlan(T, posted).desc = trees
    BY <1>1, <1>4 DEF NewDescendants
  <1>b. PICK g \in trees :
          \E r \in EditPlan(T, posted).desc[g] : r.desc # g /\ r.desc \in trees
    BY <1>a DEF Tangled
  <1>6. PICK r \in EditPlan(T, posted).desc[g] : r.desc # g /\ r.desc \in trees
    BY <1>b
  <1> DEFINE h == r.desc
  <1>7. /\ r \in Subtree(T, g)
        /\ \A w \in {w \in trees : dep[w] = g} \cup
                    {w \in Members(T, g) \cap (trees \ {g}) : g \notin Range(new[w])} :
             h \notin Members(T, w)
    BY <1>1, <1>4, <1>6 DEF NewDescendants
  <1>8. r \in T /\ r.anc = g
    BY <1>7 DEF Subtree
  <1>9. h \in Members(T, h)
    <2>1. h \in DOMAIN parent
      BY <1>8 DEF Sound
    <2>2. Row(h, h, 0) \in T /\ Row(h, h, 0).anc = h /\ Row(h, h, 0).desc = h
      BY <2>1, RowFields DEF Sound
    <2> QED
      BY <2>2 DEF Members, Subtree
  <1>10. dep[h] # g
    BY <1>6, <1>7, <1>9
  <1>11. g \in Range(new[h])
    <2>1. h \in Members(T, g)
      BY <1>7 DEF Members
    <2> QED
      BY <1>6, <1>7, <1>9, <2>1
  <1> HIDE DEF h
  <1>12. h \in trees /\ h # g
    BY <1>6 DEF h
  <1>13. dep[h] # Root
    <2> SUFFICES ASSUME dep[h] = Root PROVE FALSE
      OBVIOUS
    <2>1. g \in Range(Chain(T, posted[h]))
      BY <1>5, <1>11, <1>12
    <2> DEFINE p == posted[h]
    <2> HIDE DEF p
    <2>2. \A a \in Range(Chain(T, p)) : \E q \in T : q.desc = p /\ q.anc = a
      BY ChainIs
    <2>3. PICK q \in T : q.desc = posted[h] /\ q.anc = g
      BY <2>1, <2>2 DEF p
    <2>4. \A b \in T : b.desc = posted[h] => b.anc \notin trees \ {h}
      <3>1. \/ /\ Dependency(T, posted)[h] = Root
               /\ \A b \in T : b.desc = posted[h] => b.anc \notin trees \ {h}
            \/ Dependency(T, posted)[h] \in trees
        BY <1>12, DependencyIs
      <3>2. Root \notin trees
        BY DEF EditTrees
      <3> QED
        BY <3>1, <3>2 DEF dep
    <2> QED
      BY <1>12, <2>3, <2>4
  <1>14. dep[h] \in trees
    BY <1>3, <1>12, <1>13 DEF dep
  <1>15. dep[h] # h
    <2>1. PICK s : s \in Orders(dep)
      BY DEF dep
    <2> DEFINE n == Cardinality(DOMAIN dep)
    <2>2. /\ n \in Nat /\ s \in [1..n -> DOMAIN dep]
          /\ \A k \in DOMAIN dep : \E i \in 1..n : s[i] = k
          /\ \A i, j \in 1..n : dep[s[j]] = s[i] => i < j
      BY <1>1, <1>2, <2>1, OrderIs
    <2> HIDE DEF n
    <2>3. PICK i \in 1..n : s[i] = h
      BY <1>1, <1>12, <2>2
    <2>4. ~ (i < i)
      OBVIOUS
    <2> QED
      BY <2>2, <2>3, <2>4
  <1>16. Cardinality(trees) >= 3
    <2>1. IsFiniteSet({g}) /\ Cardinality({g}) = 1
      BY FS_Singleton
    <2>2. IsFiniteSet({g} \cup {h}) /\ Cardinality({g} \cup {h}) = 2
      <3>1. h \notin {g} /\ 1 + 1 = 2
        BY <1>12
      <3> QED
        BY <2>1, <3>1, FS_AddElement
    <2>3. Cardinality(({g} \cup {h}) \cup {dep[h]}) = 3
      <3>1. dep[h] \notin {g} \cup {h} /\ 2 + 1 = 3
        BY <1>10, <1>15
      <3> HIDE DEF dep
      <3> QED
        BY <2>2, <3>1, FS_AddElement
    <2>4. (({g} \cup {h}) \cup {dep[h]}) \in SUBSET trees
      BY <1>12, <1>14
    <2> HIDE DEF trees
    <2>5. 3 <= Cardinality(trees)
      BY <1>2, <2>3, <2>4, FS_Subset
    <2>6. Cardinality(trees) \in Nat
      BY <1>2, FS_CardinalityType
    <2> QED
      BY <2>5, <2>6
  <1> QED
    BY <1>4, <1>5, <1>16

-----------------------------------------------------------------------------
(* What the validators accept ends the reordering loop.                     *)

\* closure_model.get_parents finds the parent, also of a hierarchy of which
\* nothing else is known.
LEMMA ParentIsFound ==
  ASSUME NEW parent, IsFiniteSet(DOMAIN parent), NEW g \in DOMAIN parent
  PROVE  Parent(PathsOf(parent), g) = parent[g]
  <1> DEFINE T == PathsOf(parent)
             N == Cardinality(DOMAIN parent)
             up == {r \in T : r.desc = g /\ r.depth = 1}
  <1>1. /\ N \in Nat /\ Sound(parent, T, N)
        /\ parent[g] # Root => Row(parent[g], g, 1) \in T
    BY PathsAreSound
  <1> HIDE DEF T
  <1>2. ASSUME NEW r \in up PROVE r.anc = parent[g] /\ parent[g] # Root
    <2>1. PICK q \in T : /\ q.desc = r.desc /\ q.depth = r.depth - 1
                         /\ parent[q.anc] # Root /\ r.anc = parent[q.anc]
      BY <1>1 DEF Sound
    <2>2. q.depth = 0 /\ q.desc = g
      BY <2>1
    <2>3. q.anc = g
      BY <1>1, <2>2 DEF Sound
    <2> QED
      BY <2>1, <2>3
  <1>3. CASE up = {}
    <2>1. parent[g] = Root
      <3> SUFFICES ASSUME parent[g] # Root PROVE FALSE
        OBVIOUS
      <3>1. Row(parent[g], g, 1) \in up
        BY <1>1, RowFields
      <3> QED
        BY <1>3, <3>1
    <2> QED
      BY <1>3, <2>1 DEF Parent, T
  <1>4. CASE up # {}
    <2>1. (CHOOSE r \in up : TRUE) \in up
      BY <1>4
    <2>2. Parent(T, g) = (CHOOSE r \in up : TRUE).anc
      BY <1>4 DEF Parent
    <2> HIDE DEF up
    <2> QED
      BY <1>2, <2>1, <2>2 DEF T
  <1> QED
    BY <1>3, <1>4

\* The hierarchy that an update asks for, as its validator reads it.
Asked(T, G, posted) ==
  [g \in G |-> IF g \in DOMAIN posted THEN posted[g] ELSE Parent(T, g)]

\* What is_valid() of an update has established from the rows T: no tree goes
\* into itself, and the hierarchy asked for has no cycle.
Validated(T, G, posted) ==
  /\ DOMAIN posted \subseteq G
  /\ \A g \in DOMAIN posted : OutsideItself(T, g, posted[g])
  /\ Acyclic(Asked(T, G, posted))

\* Above the new parent of g, up to the first moved tree, nothing moves: so
\* that tree ranks no higher in the hierarchy asked for than the new parent,
\* and the loop can follow the ranks.
LEMMA ValidatedEnds ==
  ASSUME NEW parent, IsFiniteSet(DOMAIN parent), Root \notin DOMAIN parent,
         NEW G, G \subseteq DOMAIN parent, NEW posted,
         Validated(PathsOf(parent), G, posted)
  PROVE  Orders(Dependency(PathsOf(parent), posted)) # {}
  <1> DEFINE T == PathsOf(parent)
             N == Cardinality(DOMAIN parent)
             trees == EditTrees(T, posted)
             dep == Dependency(T, posted)
             asked == Asked(T, G, posted)
  <1>1. N \in Nat /\ Sound(parent, T, N)
    BY PathsAreSound
  <1>2. \A g \in DOMAIN parent : Parent(T, g) = parent[g]
    BY ParentIsFound
  <1> HIDE DEF T
  <1>3. IsFiniteSet(G)
    BY FS_Subset
  <1>4. DOMAIN asked = G
    BY DEF Asked
  <1>5. PICK rank \in [G -> Nat] : \A g \in G :
          asked[g] # Root => asked[g] \in G /\ rank[asked[g]] < rank[g]
    <2>1. Acyclic(asked) /\ IsFiniteSet(DOMAIN asked)
      BY <1>3, <1>4 DEF Validated, T
    <2> HIDE DEF asked
    <2> QED
      BY <1>4, <2>1, AcyclicRank DEF Ranks
  <1>6. /\ trees \subseteq G /\ trees \subseteq DOMAIN posted
        /\ \A g \in trees : asked[g] = posted[g]
        /\ \A g \in G \ trees : asked[g] = parent[g]
    <2>1. trees \subseteq DOMAIN posted /\ DOMAIN posted \subseteq G
      BY DEF EditTrees, Validated
    <2>2. \A g \in trees : asked[g] = posted[g]
      BY <2>1 DEF Asked
    <2>3. ASSUME NEW g \in G \ trees PROVE asked[g] = parent[g]
      <3>1. Parent(T, g) = parent[g]
        BY <1>2
      <3>2. g \in DOMAIN posted => posted[g] = Parent(T, g)
        BY DEF EditTrees
      <3> QED
        BY <3>1, <3>2 DEF Asked
    <2> QED
      BY <2>1, <2>2, <2>3
  <1> HIDE DEF trees, asked
  <1>7. DOMAIN dep = trees /\ IsFiniteSet(trees)
    <2>1. trees \in SUBSET G
      BY <1>6
    <2>2. DOMAIN dep = trees
      BY DEF Dependency, trees
    <2> QED
      BY <1>3, <2>1, <2>2, FS_Subset
  <1>8. ASSUME NEW g \in trees, dep[g] \in trees PROVE rank[dep[g]] < rank[g]
    <2>1. PICK r \in T : /\ r.desc = posted[g] /\ r.anc = dep[g]
                         /\ \A q \in T : q.desc = posted[g] /\ q.depth < r.depth =>
                              q.anc \notin trees \ {g}
      <3>1. dep[g] # Root
        BY <1>6, <1>8
      <3> QED
        BY <1>1, <3>1, DependencyIs DEF trees
    <2>2. posted[g] \in DOMAIN parent /\ posted[g] # Root /\ r.depth \in 0..N
      BY <1>1, <2>1 DEF Sound
    <2>3. posted[g] \in G /\ rank[posted[g]] < rank[g]
      BY <1>5, <1>6, <2>2
    <2>4. \A q \in T : q.desc = posted[g] => q.anc # g
      BY <1>6 DEF Validated, OutsideItself, Members, Subtree, T
    <2> DEFINE Near == {n \in 0..N : n > r.depth \/
                          \A q \in T : q.desc = posted[g] /\ q.depth = n =>
                             q.anc \in G /\ rank[q.anc] <= rank[posted[g]]}
    <2>5. 0 \in Near
      <3> SUFFICES ASSUME NEW q \in T, q.desc = posted[g], q.depth = 0
                   PROVE  q.anc \in G /\ rank[q.anc] <= rank[posted[g]]
        BY <1>1
      <3>1. q.anc = posted[g]
        BY <1>1 DEF Sound
      <3> QED
        BY <2>3, <3>1
    <2>6. ASSUME NEW n \in 1..N, n - 1 \in Near PROVE n \in Near
      <3> SUFFICES ASSUME ~ (n > r.depth),
                          NEW q \in T, q.desc = posted[g], q.depth = n
                   PROVE  q.anc \in G /\ rank[q.anc] <= rank[posted[g]]
        BY <1>1
      <3>1. PICK b \in T : /\ b.desc = q.desc /\ b.depth = q.depth - 1
                           /\ parent[b.anc] # Root /\ q.anc = parent[b.anc]
        BY <1>1 DEF Sound
      <3>2. n - 1 < r.depth /\ ~ (n - 1 > r.depth)
        BY <1>1, <2>2
      <3>3. b.anc \in G /\ rank[b.anc] <= rank[posted[g]]
        BY <2>6, <3>1, <3>2
      <3>4. b.anc \notin trees
        BY <2>1, <2>4, <3>1, <3>2
      <3>5. asked[b.anc] = q.anc /\ q.anc # Root
        BY <1>6, <3>1, <3>3, <3>4
      <3>6. q.anc \in G /\ rank[q.anc] < rank[b.anc]
        BY <1>5, <3>3, <3>5
      <3>7. rank[q.anc] \in Nat /\ rank[b.anc] \in Nat /\ rank[posted[g]] \in Nat
        BY <2>3, <3>3, <3>6
      <3> QED
        BY <3>3, <3>6, <3>7
    <2>7. 0..N \subseteq Near
      <3>1. \A n \in 1..N : n - 1 \in Near => n \in Near
        BY <2>6
      <3> HIDE DEF Near, N
      <3> QED
        BY <1>1, <2>5, <3>1, NatSetInduction
    <2>8. r.anc \in G /\ rank[r.anc] <= rank[posted[g]]
      <3>1. r.depth \in Near /\ ~ (r.depth > r.depth)
        BY <2>2, <2>7
      <3> QED
        BY <2>1, <3>1
    <2>9. rank[r.anc] \in Nat /\ rank[posted[g]] \in Nat /\ rank[g] \in Nat
      BY <1>6, <2>3, <2>8
    <2> QED
      BY <2>1, <2>3, <2>8, <2>9
  <1>9. Orders(dep) # {}
    <2> DEFINE level == [g \in trees |-> rank[g]]
    <2>1. level \in [DOMAIN dep -> Nat] /\ \A g \in trees : level[g] = rank[g]
      BY <1>6, <1>7
    <2>2. \A g \in DOMAIN dep : dep[g] \in DOMAIN dep => level[dep[g]] < level[g]
      BY <1>7, <1>8, <2>1
    <2>3. Root \notin DOMAIN dep /\ IsFiniteSet(DOMAIN dep)
      BY <1>6, <1>7
    <2> HIDE DEF level, dep
    <2> QED
      BY <2>1, <2>2, <2>3, OrdersExist
  <1> QED
    BY <1>9 DEF T

-----------------------------------------------------------------------------
(* The workers                                                              *)

\* The parents that the forms name are groups, other forms, or none.
FormsFit(forms, groups) ==
  \A i \in DOMAIN forms : /\ forms[i].exist \in groups \cup {Root}
                          /\ NewParent(forms, i) \in DOMAIN forms \cup {0}

\* The groups of the rows T.
GroupsIn(T) == {r.desc : r \in T}

\* The update posted was validated and planned from the rows T.
Planned(T, posted, plan) ==
  /\ Validated(T, GroupsIn(T), posted)
  /\ Orders(Dependency(T, posted)) # {}
  /\ plan = EditPlan(T, posted)

\* What is true of a request r while the table holds the rows T of groups:
\* what the validators saw of it, unless another transaction has overtaken it or
\* they saw other groups than its own, is what they would see now.
RequestInv(r, T, groups) ==
  /\ r.phase \in {"idle", "new", "edit", "planned", "spinning"}
  /\ r.phase = "idle" => r = Idle
  /\ r.phase # "idle" => r.stale \in BOOLEAN /\ {"phase", "posted", "stale"} \subseteq DOMAIN r
  /\ r.phase = "new" => /\ r.posted \in Seq(Range(r.posted))
                        /\ InsertionOrders(r.posted) # {}
                        /\ FormsFit(r.posted, groups)
  /\ r.phase = "edit" =>
       /\ DOMAIN r.posted \subseteq groups
       /\ r.mismatched \in BOOLEAN /\ "mismatched" \in DOMAIN r
       /\ Checked(r) => Validated(T, GroupsIn(T), r.posted)
  /\ r.phase = "planned" =>
       /\ {"mismatched", "plan"} \subseteq DOMAIN r
       /\ Checked(r) => Planned(T, r.posted, r.plan)
       /\ Tangled(r.plan) => Cardinality(DOMAIN r.plan.new) >= 3
  /\ r.phase = "spinning" => "mismatched" \in DOMAIN r /\ ~ Checked(r)

\* A validation that nothing has overtaken still holds of the table.
FormsetInv ==
  /\ forest \in Seq(Range(forest))
  /\ DOMAIN req = Workers
  /\ \A w \in Workers : RequestInv(req[w], Table, Groups)

\* The groups are numbered from 1, so none has the number of no parent.
LEMMA GroupsAreNumbered ==
  ASSUME forest \in Seq(Range(forest))
  PROVE  /\ Len(forest) \in Nat /\ Groups = 1..Len(forest)
         /\ IsFiniteSet(Groups) /\ Cardinality(Groups) \in Nat /\ Root \notin Groups
  <1>1. Len(forest) \in Nat /\ Groups = 1..Len(forest)
    BY LenProperties DEF Groups
  <1>2. IsFiniteSet(Groups)
    BY <1>1, FS_Interval
  <1> QED
    BY <1>1, <1>2, FS_CardinalityType DEF Root

\* In a state that Next explores the table holds the paths of the hierarchy.
LEMMA TableIsExact ==
  ASSUME Exact
  PROVE  Table = PathsOf(forest)
  <1> DEFINE S == PathsOf(forest)
  <1> HIDE DEF S
  <1>1. closure = SetToBag(S)
    BY DEF Exact, S
  <1>2. Table = S
    BY <1>1 DEF Table, BagToSet, SetToBag
  <1> QED
    BY <1>2 DEF S

\* Then the groups are those of the table.
LEMMA GroupsAreIn ==
  ASSUME forest \in Seq(Range(forest)), Exact
  PROVE  GroupsIn(Table) = Groups
  <1> DEFINE N == Cardinality(Groups)
  <1>1. IsFiniteSet(Groups)
    BY GroupsAreNumbered
  <1>2. Sound(forest, Table, N)
    BY <1>1, TableIsExact, PathsAreSound DEF Groups
  <1> HIDE DEF N
  <1>3. \A g \in Groups : Row(g, g, 0) \in Table /\ Row(g, g, 0).desc = g
    BY <1>2, RowFields DEF Sound, Groups
  <1>4. \A r \in Table : r.desc \in Groups
    BY <1>2 DEF Sound, Groups
  <1> QED
    BY <1>3, <1>4 DEF GroupsIn

\* A request stays sound while no rows change, or is marked as overtaken.
LEMMA RequestStays ==
  ASSUME NEW r, NEW T, NEW groups, NEW T1, NEW groups1,
         RequestInv(r, T, groups), groups \subseteq groups1
  PROVE  /\ T1 = T => RequestInv(r, T1, groups1)
         /\ r # Idle => RequestInv([r EXCEPT !.stale = TRUE], T1, groups1)
  <1>1. ASSUME T1 = T PROVE RequestInv(r, T1, groups1)
    BY <1>1 DEF RequestInv, FormsFit
  <1>2. ASSUME r # Idle PROVE RequestInv([r EXCEPT !.stale = TRUE], T1, groups1)
    <2> DEFINE c == [r EXCEPT !.stale = TRUE]
    <2>1. r.phase # "idle" /\ {"phase", "posted", "stale"} \subseteq DOMAIN r
      BY <1>2 DEF RequestInv
    <2>2. DOMAIN c = DOMAIN r /\ c.phase = r.phase /\ c.posted = r.posted
      BY <2>1
    <2>3. c.stale = TRUE
      BY <2>1
    <2>4. r.phase = "planned" => "plan" \in DOMAIN r /\ c.plan = r.plan
      BY DEF RequestInv
    <2>5. r.phase = "edit" => c.mismatched = r.mismatched
      BY DEF RequestInv
    <2> HIDE DEF c
    <2>6. c.stale \in BOOLEAN /\ c.stale
      BY <2>3
    <2>7. RequestInv(c, T1, groups1)
      <3>1. ~ Checked(c)
        BY <2>6 DEF Checked
      <3> QED
        BY <2>1, <2>2, <2>4, <2>6, <2>5, <3>1 DEF RequestInv, FormsFit
    <2> QED
      BY <2>7 DEF c
  <1> QED
    BY <1>1, <1>2

\* Forms posted with the IDs of the groups that they update are validated for
\* those groups.
LEMMA OwnIdsAreChecked ==
  ASSUME NEW T, NEW G, NEW S \in SUBSET G, NEW posted, DOMAIN posted = S,
         Accepts(T, G, OwnIds(S), posted)
  PROVE  Validated(T, G, posted)
  <1> DEFINE ids == OwnIds(S)
  <1>1. DOMAIN ids = S /\ (\A g \in S : ids[g] = g) /\ Range(ids) = S
    BY DEF OwnIds, Range
  <1> HIDE DEF ids
  <1>2. \A g \in S : (CHOOSE f \in DOMAIN ids : ids[f] = g) = g
    BY <1>1
  <1>3. EditEdges(T, G, ids, posted) = Asked(T, G, posted)
    BY <1>1, <1>2 DEF EditEdges, Asked
  <1>4. \A g \in S : OutsideItself(T, g, posted[g])
    BY <1>1 DEF Accepts, ids
  <1>5. Acyclic(Asked(T, G, posted))
    BY <1>3 DEF Accepts, ids
  <1> QED
    BY <1>4, <1>5 DEF Validated

\* Every valid request for new groups can be put in an order.
LEMMA NewGroupsAreOrdered ==
  ASSUME NEW n \in Nat, NEW forms, DOMAIN forms = 1..n,
         Acyclic([i \in 1..n |-> NewParent(forms, i)])
  PROVE  InsertionOrders(forms) # {}
  <1> DEFINE dep == [i \in 1..n |-> NewParent(forms, i)]
  <1>1. DOMAIN dep = 1..n /\ IsFiniteSet(1..n)
    BY FS_Interval
  <1>2. InsertionOrders(forms) = Orders(dep)
    BY DEF InsertionOrders
  <1>3. Acyclic(dep)
    OBVIOUS
  <1> HIDE DEF dep
  <1>4. PICK rank \in [DOMAIN dep -> Nat] : \A g \in DOMAIN dep :
          dep[g] # Root => dep[g] \in DOMAIN dep /\ rank[dep[g]] < rank[g]
    BY <1>1, <1>3, AcyclicRank DEF Ranks
  <1>5. Root \notin DOMAIN dep
    BY <1>1 DEF Root
  <1>6. Orders(dep) # {}
    BY <1>1, <1>4, <1>5, OrdersExist
  <1> QED
    BY <1>2, <1>6

\* One worker's request changes, and nothing else.
LEMMA OneRequestChanges ==
  ASSUME FormsetInv, NEW w \in Workers, NEW r, RequestInv(r, Table, Groups),
         req' = [req EXCEPT ![w] = r], UNCHANGED <<closure, forest>>
  PROVE  FormsetInv'
  <1>1. DOMAIN req' = Workers /\ \A v \in Workers : req'[v] = IF v = w THEN r ELSE req[v]
    BY DEF FormsetInv
  <1>2. Table' = Table /\ Groups' = Groups /\ forest' = forest
    BY DEF Table, Groups
  <1>3. \A v \in Workers : RequestInv(req'[v], Table, Groups)
    BY <1>1 DEF FormsetInv
  <1> QED
    BY <1>1, <1>2, <1>3 DEF FormsetInv

\* A transaction of w ends: the others are overtaken when rows change.
LEMMA CommitKeeps ==
  ASSUME FormsetInv, NEW w \in Workers, NEW rows, Commit(w, rows),
         forest' \in Seq(Range(forest')), Groups \subseteq Groups'
  PROVE  FormsetInv'
  <1>1. /\ closure' = rows /\ DOMAIN req' = Workers
        /\ \A v \in Workers : req'[v] = IF v = w THEN Idle
                                        ELSE IF Busy(v) /\ rows # closure
                                             THEN [req[v] EXCEPT !.stale = TRUE]
                                             ELSE req[v]
    BY DEF Commit
  <1>2. ASSUME NEW v \in Workers PROVE RequestInv(req'[v], Table', Groups')
    <2>1. RequestInv(req[v], Table, Groups)
      BY DEF FormsetInv
    <2>2. CASE v = w
      <3>1. req'[v] = Idle /\ Idle.phase = "idle"
        BY <1>1, <2>2 DEF Idle
      <3> QED
        BY <3>1 DEF RequestInv
    <2>3. CASE v # w /\ Busy(v) /\ rows # closure
      <3>1. req'[v] = [req[v] EXCEPT !.stale = TRUE]
        BY <1>1, <2>3
      <3>2. RequestInv([req[v] EXCEPT !.stale = TRUE], Table', Groups')
        BY <2>1, <2>3, RequestStays DEF Busy
      <3> QED
        BY <3>1, <3>2
    <2>4. CASE v # w /\ ~ Busy(v)
      <3>1. req'[v] = Idle /\ Idle.phase = "idle"
        BY <1>1, <2>4 DEF Busy, Idle
      <3> QED
        BY <3>1 DEF RequestInv
    <2>5. CASE v # w /\ rows = closure
      <3>1. req'[v] = req[v] /\ Table' = Table
        BY <1>1, <2>5 DEF Table
      <3>2. RequestInv(req[v], Table', Groups')
        BY <2>1, <3>1, RequestStays
      <3> QED
        BY <3>1, <3>2
    <2> QED
      BY <2>2, <2>3, <2>4, <2>5
  <1> QED
    BY <1>1, <1>2 DEF FormsetInv

\* A sequence is one of the elements that it has.
LEMMA SequenceOfItsRange ==
  ASSUME NEW S, NEW f \in Seq(S)
  PROVE  f \in Seq(Range(f))
  <1> DEFINE R == Range(f)
             n == Len(f)
  <1>1. n \in Nat /\ f \in [1..n -> R]
    BY LenProperties DEF Range
  <1> HIDE DEF R, n
  <1>2. f \in Seq(R)
    BY <1>1
  <1> QED
    BY <1>2 DEF R

\* The sequence of the groups with one more for every form in its order.
LEMMA ForestGrows ==
  ASSUME forest \in Seq(Range(forest)), NEW more, NEW n \in Nat,
         more = [k \in 1..n |-> more[k]], forest' = forest \o more
  PROVE  forest' \in Seq(Range(forest')) /\ Groups \subseteq Groups'
  <1> DEFINE S == Range(forest) \cup Range(more)
             f == forest'
  <1>1. more \in Seq(S) /\ Len(more) = n
    <2>1. more \in [1..n -> S]
      BY DEF Range
    <2> HIDE DEF S
    <2>2. more \in Seq(S)
      BY <2>1
    <2>3. Len(more) \in Nat /\ 1..Len(more) = 1..n
      BY <2>1, <2>2, LenProperties
    <2>4. Len(more) = n
      BY <2>3
    <2> QED
      BY <2>2, <2>4
  <1>2. forest \in Seq(S)
    <2>1. forest \in Seq(Range(forest)) /\ Range(forest) \subseteq S
      OBVIOUS
    <2> HIDE DEF S
    <2> QED
      BY <2>1, SeqMonotonic
  <1>3. f \in Seq(S) /\ Len(f) = Len(forest) + n
    BY <1>1, <1>2, ConcatProperties
  <1>4. Len(forest) \in Nat /\ Groups = 1..Len(forest)
    BY GroupsAreNumbered
  <1> HIDE DEF S, f
  <1>5. DOMAIN f = 1..(Len(forest) + n)
    BY <1>3, LenProperties
  <1>6. f \in Seq(Range(f))
    BY <1>3, SequenceOfItsRange
  <1>7. Groups \subseteq DOMAIN f
    BY <1>4, <1>5
  <1> QED
    BY <1>6, <1>7 DEF f, Groups

\* No action of a worker ends what is known of the requests.
LEMMA FormsetStep ==
  ASSUME FormsetInv, [Next]_vars
  PROVE  FormsetInv'
  <1>1. CASE UNCHANGED vars
    BY <1>1 DEF vars, FormsetInv, Table, Groups
  <1> SUFFICES ASSUME Next PROVE FormsetInv'
    BY <1>1
  <1>2. /\ forest \in Seq(Range(forest)) /\ DOMAIN req = Workers
        /\ \A w \in Workers : RequestInv(req[w], Table, Groups)
    BY DEF FormsetInv
  <1>3. /\ Len(forest) \in Nat /\ Groups = 1..Len(forest)
        /\ IsFiniteSet(Groups) /\ Cardinality(Groups) \in Nat /\ Root \notin Groups
    BY <1>2, GroupsAreNumbered
  <1>4. Table = PathsOf(forest)
    BY TableIsExact DEF Next
  <1>5. /\ Cardinality(Groups) \in Nat
        /\ Sound(forest, Table, Cardinality(Groups))
    BY <1>3, <1>4, PathsAreSound DEF Groups
  <1>6. GroupsIn(Table) = Groups
    BY <1>2, GroupsAreIn DEF Next
  <1>7. PICK w \in Workers :
          \/ PostNew(w) \/ PostEdit(w) \/ PlanEdit(w) \/ Spin(w)
          \/ Insert(w) \/ Update(w) \/ Rollback(w)
    BY DEF Next
  <1>8. RequestInv(req[w], Table, Groups)
    BY <1>2
  <1>9. CASE PostNew(w)
    <2>1. PICK n \in 1..(MaxGroups - Cardinality(Groups)) :
            \E forms \in [1..n -> [exist : Groups \cup {Root}, new : 0..n]] :
               /\ Acyclic([i \in 1..n |-> NewParent(forms, i)])
               /\ req' = [req EXCEPT ![w] =
                            [phase |-> "new", posted |-> forms, stale |-> FALSE]]
      BY <1>9 DEF PostNew
    <2>2. PICK forms \in [1..n -> [exist : Groups \cup {Root}, new : 0..n]] :
               /\ Acyclic([i \in 1..n |-> NewParent(forms, i)])
               /\ req' = [req EXCEPT ![w] =
                            [phase |-> "new", posted |-> forms, stale |-> FALSE]]
      BY <2>1
    <2> DEFINE r == [phase |-> "new", posted |-> forms, stale |-> FALSE]
    <2>3. /\ r.phase = "new" /\ r.posted = forms /\ r.stale = FALSE
          /\ DOMAIN r = {"phase", "posted", "stale"}
      OBVIOUS
    <2>4. n \in Nat /\ DOMAIN forms = 1..n
      BY <1>3
    <2>5. InsertionOrders(forms) # {}
      BY <2>2, <2>4, NewGroupsAreOrdered
    <2>6. forms \in Seq(Range(forms))
      <3>1. forms \in [1..n -> Range(forms)]
        BY <2>4 DEF Range
      <3> QED
        BY <2>4, <3>1
    <2>7. req' = [req EXCEPT ![w] = r] /\ UNCHANGED <<closure, forest>>
      BY <1>9, <2>2 DEF PostNew
    <2> HIDE DEF r
    <2>8. r.stale \in BOOLEAN
      BY <2>3
    <2>9. FormsFit(forms, Groups)
      <3>1. ASSUME NEW i \in DOMAIN forms
            PROVE  /\ forms[i].exist \in Groups \cup {Root}
                   /\ NewParent(forms, i) \in DOMAIN forms \cup {0}
        <4>1. forms[i] \in [exist : Groups \cup {Root}, new : 0..n]
          BY <2>4
        <4>2. forms[i].exist \in Groups \cup {Root} /\ forms[i].new \in 0..n
          BY <4>1
        <4> QED
          BY <2>4, <4>2 DEF NewParent
      <3> QED
        BY <3>1 DEF FormsFit
    <2>10. RequestInv(r, Table, Groups)
      BY <2>3, <2>5, <2>6, <2>8, <2>9 DEF RequestInv
    <2> QED
      BY <2>7, <2>10, OneRequestChanges
  <1>10. CASE PostEdit(w)
    <2>1. PICK S \in SUBSET Groups \ {{}} :
            \E posted \in [S -> Groups \cup {Root}] :
               \E mismatched \in {m \in BOOLEAN : Accepted(S, posted, m)} :
                 req' = [req EXCEPT ![w] = [phase |-> "edit", posted |-> posted,
                                            stale |-> FALSE, mismatched |-> mismatched]]
      BY <1>10 DEF PostEdit
    <2>2. PICK posted \in [S -> Groups \cup {Root}] :
               \E mismatched \in {m \in BOOLEAN : Accepted(S, posted, m)} :
                 req' = [req EXCEPT ![w] = [phase |-> "edit", posted |-> posted,
                                            stale |-> FALSE, mismatched |-> mismatched]]
      BY <2>1
    <2>3. PICK mismatched \in BOOLEAN :
               /\ Accepted(S, posted, mismatched)
               /\ req' = [req EXCEPT ![w] = [phase |-> "edit", posted |-> posted,
                                             stale |-> FALSE, mismatched |-> mismatched]]
      BY <2>2
    <2> DEFINE r == [phase |-> "edit", posted |-> posted, stale |-> FALSE,
                     mismatched |-> mismatched]
    <2>4. /\ r.phase = "edit" /\ r.posted = posted /\ r.stale = FALSE
          /\ r.mismatched = mismatched
          /\ DOMAIN r = {"phase", "posted", "stale", "mismatched"}
      OBVIOUS
    <2>5. DOMAIN posted = S /\ S \subseteq Groups
      OBVIOUS
    <2>6. ASSUME ~ mismatched PROVE Validated(Table, GroupsIn(Table), posted)
      <3>1. Validated(Table, Groups, posted)
        BY <2>3, <2>5, <2>6, OwnIdsAreChecked DEF Accepted
      <3> QED
        BY <1>6, <3>1
    <2>7. req' = [req EXCEPT ![w] = r] /\ UNCHANGED <<closure, forest>>
      BY <1>10, <2>3 DEF PostEdit
    <2> HIDE DEF r
    <2>8. r.stale \in BOOLEAN /\ r.mismatched \in BOOLEAN
      BY <2>4
    <2>9. Checked(r) => Validated(Table, GroupsIn(Table), r.posted)
      BY <2>4, <2>6 DEF Checked
    <2>10. RequestInv(r, Table, Groups)
      BY <2>4, <2>5, <2>8, <2>9 DEF RequestInv
    <2> QED
      BY <2>7, <2>10, OneRequestChanges
  <1>11. CASE PlanEdit(w)
    <2> DEFINE posted == req[w].posted
               plan == EditPlan(Table, posted)
               r == [phase |-> "planned", posted |-> posted, stale |-> req[w].stale,
                     mismatched |-> req[w].mismatched, plan |-> plan]
    <2>1. DOMAIN posted \subseteq Groups /\ req[w].stale \in BOOLEAN
      BY <1>8, <1>11 DEF RequestInv, PlanEdit
    <2>2. IsFiniteSet(DOMAIN posted) /\ Root \notin DOMAIN posted
      BY <1>3, <2>1, FS_Subset
    <2>3. Tangled(plan) => Cardinality(DOMAIN plan.new) >= 3
      <3>1. Orders(Dependency(Table, posted)) # {}
        BY <1>11 DEF PlanEdit
      <3> HIDE DEF posted
      <3> QED
        BY <1>5, <2>2, <3>1, TangledByThree
    <2>4. req' = [req EXCEPT ![w] = r] /\ UNCHANGED <<closure, forest>>
      BY <1>2, <1>11 DEF PlanEdit
    <2>5. Checked(req[w]) => Planned(Table, posted, plan)
      <3>1. Checked(req[w]) => Validated(Table, GroupsIn(Table), posted)
        BY <1>8, <1>11 DEF RequestInv, PlanEdit
      <3>2. Orders(Dependency(Table, posted)) # {}
        BY <1>11 DEF PlanEdit
      <3> QED
        BY <3>1, <3>2 DEF Planned
    <2> HIDE DEF plan, posted
    <2>6. /\ r.phase = "planned" /\ r.plan = plan /\ r.stale = req[w].stale
          /\ r.posted = posted /\ r.mismatched = req[w].mismatched
          /\ DOMAIN r = {"phase", "posted", "stale", "mismatched", "plan"}
      OBVIOUS
    <2> HIDE DEF r
    <2>7. r.stale \in BOOLEAN
      BY <2>1, <2>6
    <2>8. RequestInv(r, Table, Groups)
      <3>1. Checked(r) <=> Checked(req[w])
        BY <2>6 DEF Checked
      <3> QED
        BY <2>3, <2>5, <2>6, <2>7, <3>1 DEF RequestInv
    <2> QED
      BY <2>4, <2>8, OneRequestChanges
  <1>12. CASE Spin(w)
    <2> DEFINE r == [req[w] EXCEPT !.phase = "spinning"]
    <2>1. req[w].phase = "edit" /\ Orders(Dependency(Table, req[w].posted)) = {}
      BY <1>12 DEF Spin
    <2>2. ~ Checked(req[w])
      <3> SUFFICES ASSUME Checked(req[w]) PROVE FALSE
        OBVIOUS
      <3>1. Validated(Table, Groups, req[w].posted)
        BY <1>6, <1>8, <2>1 DEF RequestInv
      <3>2. Orders(Dependency(Table, req[w].posted)) # {}
        BY <1>3, <1>4, <3>1, ValidatedEnds DEF Groups
      <3> QED
        BY <2>1, <3>2
    <2>3. /\ req[w].stale \in BOOLEAN
          /\ {"phase", "posted", "stale", "mismatched"} \subseteq DOMAIN req[w]
      BY <1>8, <2>1 DEF RequestInv
    <2>4. req' = [req EXCEPT ![w] = r] /\ UNCHANGED <<closure, forest>>
      BY <1>2, <1>12 DEF Spin
    <2>5. /\ r.phase = "spinning" /\ r.stale = req[w].stale
          /\ r.mismatched = req[w].mismatched /\ DOMAIN r = DOMAIN req[w]
      BY <2>3
    <2> HIDE DEF r
    <2>6. r.stale \in BOOLEAN /\ ~ Checked(r)
      BY <2>2, <2>3, <2>5 DEF Checked
    <2>7. RequestInv(r, Table, Groups)
      BY <2>3, <2>5, <2>6 DEF RequestInv
    <2> QED
      BY <2>4, <2>7, OneRequestChanges
  <1>13. CASE Insert(w)
    <2> DEFINE forms == req[w].posted
               s == CHOOSE order \in InsertionOrders(forms) : TRUE
               n == Cardinality(DOMAIN forms)
    <2>1. forms \in Seq(Range(forms)) /\ InsertionOrders(forms) # {}
      BY <1>8, <1>13 DEF RequestInv, Insert
    <2>2. n \in Nat
      <3>1. Len(forms) \in Nat /\ DOMAIN forms = 1..Len(forms)
        BY <2>1, LenProperties
      <3>2. IsFiniteSet(1..Len(forms))
        BY <3>1, FS_Interval
      <3> QED
        BY <3>1, <3>2, FS_CardinalityType
    <2>3. DOMAIN s = 1..n
      <3>1. s \in InsertionOrders(forms)
        BY <2>1
      <3> HIDE DEF s
      <3> QED
        BY <3>1 DEF InsertionOrders, Orders, SetToSeqs
    <2>4. \E more : more = [k \in 1..n |-> more[k]] /\ forest' = forest \o more
      <3> DEFINE id(i) == Cardinality(Groups) + (CHOOSE k \in DOMAIN s : s[k] = i)
                 parent(i) == IF NewParent(forms, i) = 0 THEN forms[i].exist
                              ELSE id(NewParent(forms, i))
                 more == [k \in DOMAIN s |-> parent(s[k])]
      <3>1. forest' = forest \o more
        BY <1>13 DEF Insert
      <3>2. more = [k \in DOMAIN s |-> more[k]]
        OBVIOUS
      <3> HIDE DEF more, s
      <3> QED
        BY <2>3, <3>1, <3>2
    <2>5. forest' \in Seq(Range(forest')) /\ Groups \subseteq Groups'
      BY <1>2, <2>2, <2>4, ForestGrows
    <2>6. \E rows : Commit(w, rows)
      BY <1>13 DEF Insert
    <2> QED
      BY <2>5, <2>6, CommitKeeps
  <1>14. CASE Update(w)
    <2>1. DOMAIN forest' = Groups /\ forest' = [g \in Groups |-> forest'[g]]
      BY <1>14 DEF Update
    <2>2. forest' \in Seq(Range(forest')) /\ Groups \subseteq Groups'
      <3> DEFINE f == forest'
      <3>1. f \in [1..Len(forest) -> Range(f)]
        BY <1>3, <2>1 DEF Range
      <3>2. Len(forest) \in Nat
        BY <1>3
      <3> HIDE DEF f
      <3>3. f \in Seq(Range(f))
        BY <3>1, <3>2
      <3> QED
        BY <2>1, <3>3 DEF f, Groups
    <2>3. \E rows : Commit(w, rows)
      BY <1>14 DEF Update
    <2> QED
      BY <2>2, <2>3, CommitKeeps
  <1>15. CASE Rollback(w)
    <2>1. req' = [req EXCEPT ![w] = Idle] /\ UNCHANGED <<closure, forest>>
      BY <1>15 DEF Rollback
    <2>2. RequestInv(Idle, Table, Groups)
      <3>1. Idle.phase = "idle"
        BY DEF Idle
      <3> QED
        BY <3>1 DEF RequestInv
    <2> QED
      BY <2>1, <2>2, OneRequestChanges
  <1> QED
    BY <1>7, <1>9, <1>10, <1>11, <1>12, <1>13, <1>14, <1>15

\* FormsetInv holds in every reachable state.
LEMMA FormsetInvariant == Spec => []FormsetInv
  <1>1. Init => FormsetInv
    <2> SUFFICES ASSUME Init PROVE FormsetInv
      OBVIOUS
    <2>1. forest = <<>> /\ forest \in Seq(Range(forest))
      BY DEF Init
    <2>2. \A w \in Workers : req[w] = Idle /\ Idle.phase = "idle"
      BY DEF Init, Idle
    <2>3. DOMAIN req = Workers
      BY DEF Init
    <2> QED
      BY <2>1, <2>2, <2>3 DEF FormsetInv, RequestInv
  <1>2. FormsetInv /\ [Next]_vars => FormsetInv'
    BY FormsetStep
  <1> QED
    BY <1>1, <1>2, PTL DEF Spec

\* The reordering loop of an update (_reorder_edit_tree) spins only for a
\* request that another transaction has overtaken or whose forms carry the IDs
\* of other groups: for any other, what is_valid() accepts is enough for the loop
\* to end, whatever the hierarchy and the number of forms.
THEOREM AcceptedUpdatesEnd == Spec => []OnlyUncheckedSpins
  <1>1. FormsetInv => OnlyUncheckedSpins
    BY DEF FormsetInv, RequestInv, OnlyUncheckedSpins
  <1> QED
    BY <1>1, FormsetInvariant, PTL

\* The plans that can write a path twice, those in which a moved tree still
\* has another moved tree among its descendants, move at least three trees.
THEOREM TangledPlansMoveThree == Spec => []TangleTakesThree
  <1>1. FormsetInv => TangleTakesThree
    BY DEF FormsetInv, RequestInv, TangleTakesThree
  <1> QED
    BY <1>1, FormsetInvariant, PTL

-----------------------------------------------------------------------------
(* The reference and the faithful tables are the same.                      *)

\* A path goes from lower ranks to higher ones, so it is shorter than they
\* are far apart.
LEMMA PathsAreShort ==
  ASSUME NEW parent, IsFiniteSet(DOMAIN parent), NEW rank, Ranks(parent, rank),
         NEW N \in Nat, NEW T, Sound(parent, T, N)
  PROVE  \A r \in T : /\ r.anc \in DOMAIN parent /\ r.desc \in DOMAIN parent
                      /\ rank[r.anc] + r.depth <= rank[r.desc]
  <1> DEFINE Fine(r) == /\ r.anc \in DOMAIN parent /\ r.desc \in DOMAIN parent
                        /\ rank[r.anc] + r.depth <= rank[r.desc]
             K == {n \in 0..N : \A r \in T : r.depth = n => Fine(r)}
  <1>1. \A r \in T : r.depth \in 0..N /\ r.desc \in DOMAIN parent /\ (r.depth = 0 => r.anc = r.desc)
    BY DEF Sound
  <1>2. \A g \in DOMAIN parent :
          /\ rank[g] \in Nat
          /\ parent[g] # Root => parent[g] \in DOMAIN parent /\ rank[parent[g]] < rank[g]
    BY DEF Ranks
  <1>3. 0 \in K
    BY <1>1, <1>2
  <1>4. ASSUME NEW n \in 1..N, n - 1 \in K PROVE n \in K
    <2> SUFFICES ASSUME NEW r \in T, r.depth = n PROVE Fine(r)
      OBVIOUS
    <2>1. PICK q \in T : /\ q.desc = r.desc /\ q.depth = n - 1
                         /\ parent[q.anc] # Root /\ r.anc = parent[q.anc]
      BY DEF Sound
    <2>2. Fine(q)
      BY <1>4, <2>1
    <2>3. /\ rank[q.anc] \in Nat /\ rank[r.desc] \in Nat /\ rank[r.anc] \in Nat
          /\ r.anc \in DOMAIN parent /\ rank[r.anc] < rank[q.anc]
      BY <1>1, <1>2, <2>1, <2>2
    <2> QED
      BY <1>1, <2>1, <2>2, <2>3
  <1> HIDE DEF K, Fine
  <1>5. 0..N \subseteq K
    BY <1>3, <1>4, NatSetInduction
  <1> QED
    BY <1>1, <1>5 DEF K, Fine

\* The paths of an acyclic hierarchy, row by row.
LEMMA PathsAreFaithful ==
  ASSUME NEW parent, IsFiniteSet(DOMAIN parent), Root \notin DOMAIN parent, Acyclic(parent)
  PROVE  Faithful(PathsOf(parent), parent)
  <1> DEFINE D == DOMAIN parent
             N == Cardinality(D)
             T == PathsOf(parent)
  <1>1. N \in Nat /\ Sound(parent, T, N)
    BY PathsAreSound
  <1>2. PICK rank : Ranks(parent, rank)
    BY AcyclicRank
  <1> HIDE DEF T, N
  <1>3. \A r \in T : r.anc \in D /\ r.desc \in D /\ rank[r.anc] + r.depth <= rank[r.desc]
    BY <1>1, <1>2, PathsAreShort
  <1>4. \A g \in D : /\ rank[g] \in 1..N
                     /\ parent[g] # Root => parent[g] \in D /\ rank[parent[g]] < rank[g]
    BY <1>2 DEF Ranks, N
  <1>5. \A r \in T : r = Row(r.anc, r.desc, r.depth) /\ r.depth \in Nat
    BY <1>1 DEF Sound
  \* A row that does not begin at a root goes on to the parent of its ancestor.
  <1>6. ASSUME NEW r \in T, parent[r.anc] # Root
        PROVE  Row(parent[r.anc], r.desc, r.depth + 1) \in T
    <2>1. r.depth \in Nat /\ rank[r.anc] \in 1..N /\ rank[r.desc] \in 1..N
      BY <1>3, <1>4, <1>5
    <2>2. rank[r.anc] + r.depth <= rank[r.desc]
      BY <1>3
    <2>3. r.depth < N
      BY <1>1, <2>1, <2>2
    <2> QED
      BY <1>1, <1>6, <2>3 DEF Sound
  <1>7. ASSUME NEW r \in T, r.depth # 0
        PROVE  \E b \in D : Row(b, r.desc, r.depth - 1) \in T /\ parent[b] # Root /\ r.anc = parent[b]
    <2>1. PICK q \in T : /\ q.desc = r.desc /\ q.depth = r.depth - 1
                         /\ parent[q.anc] # Root /\ r.anc = parent[q.anc]
      BY <1>1, <1>7 DEF Sound
    <2> QED
      BY <1>3, <1>5, <2>1
  <1>8. \A a, d, n : Row(a, d, n) \in T => a \in D /\ d \in D /\ n \in Nat
    BY <1>3, <1>5, RowFields
  <1>9. \A a, d \in D : Row(a, d, 0) \in T <=> a = d
    BY <1>1, RowFields DEF Sound
  <1> DEFINE Step(n) == \A a, d \in D : Row(a, d, n + 1) \in T <=>
                                          parent[d] # Root /\ Row(a, parent[d], n) \in T
  <1>10. Step(0)
    <2> SUFFICES ASSUME NEW a \in D, NEW d \in D
                 PROVE  Row(a, d, 1) \in T <=> parent[d] # Root /\ Row(a, parent[d], 0) \in T
      OBVIOUS
    <2>1. ASSUME Row(a, d, 1) \in T PROVE parent[d] # Root /\ a = parent[d]
      <3>1. PICK b \in D : Row(b, d, 0) \in T /\ parent[b] # Root /\ a = parent[b]
        <4>1. /\ Row(a, d, 1).depth = 1 /\ Row(a, d, 1).desc = d /\ Row(a, d, 1).anc = a
              /\ 1 # 0 /\ 1 - 1 = 0
          BY RowFields
        <4> QED
          BY <1>7, <2>1, <4>1
      <3> QED
        BY <1>9, <3>1
    <2>2. ASSUME parent[d] # Root, a = parent[d] PROVE Row(a, d, 1) \in T
      <3>1. Row(d, d, 0) \in T
        BY <1>9
      <3>2. /\ Row(d, d, 0).anc = d /\ Row(d, d, 0).desc = d /\ Row(d, d, 0).depth + 1 = 1
        BY RowFields
      <3> QED
        BY <1>6, <2>2, <3>1, <3>2
    <2>3. parent[d] # Root => (Row(a, parent[d], 0) \in T <=> a = parent[d])
      BY <1>4, <1>9
    <2> QED
      BY <2>1, <2>2, <2>3
  <1>11. ASSUME NEW n \in Nat, n > 0, Step(n - 1) PROVE Step(n)
    <2> SUFFICES ASSUME NEW a \in D, NEW d \in D
                 PROVE  Row(a, d, n + 1) \in T <=> parent[d] # Root /\ Row(a, parent[d], n) \in T
      OBVIOUS
    <2>1. \A b \in D : Row(b, d, n) \in T <=> parent[d] # Root /\ Row(b, parent[d], n - 1) \in T
      BY <1>11
    <2>2. ASSUME Row(a, d, n + 1) \in T
          PROVE  parent[d] # Root /\ Row(a, parent[d], n) \in T
      <3>1. PICK b \in D : Row(b, d, n) \in T /\ parent[b] # Root /\ a = parent[b]
        <4>1. /\ Row(a, d, n + 1).depth = n + 1 /\ Row(a, d, n + 1).desc = d
              /\ Row(a, d, n + 1).anc = a /\ n + 1 # 0 /\ (n + 1) - 1 = n
          BY RowFields
        <4> QED
          BY <1>7, <2>2, <4>1
      <3>2. parent[d] # Root /\ Row(b, parent[d], n - 1) \in T
        BY <2>1, <3>1
      <3>3. /\ Row(b, parent[d], n - 1).anc = b /\ Row(b, parent[d], n - 1).desc = parent[d]
            /\ Row(b, parent[d], n - 1).depth + 1 = n
        BY <1>11, RowFields
      <3> QED
        BY <1>6, <3>1, <3>2, <3>3
    <2>3. ASSUME parent[d] # Root, Row(a, parent[d], n) \in T
          PROVE  Row(a, d, n + 1) \in T
      <3>1. PICK b \in D : Row(b, parent[d], n - 1) \in T /\ parent[b] # Root /\ a = parent[b]
        <4>1. /\ Row(a, parent[d], n).depth = n /\ Row(a, parent[d], n).desc = parent[d]
              /\ Row(a, parent[d], n).anc = a /\ n # 0
          BY <1>11, RowFields
        <4> QED
          BY <1>7, <2>3, <4>1
      <3>2. Row(b, d, n) \in T
        BY <2>1, <2>3, <3>1
      <3>3. Row(b, d, n).anc = b /\ Row(b, d, n).desc = d /\ Row(b, d, n).depth = n
        BY RowFields
      <3> QED
        BY <1>6, <3>1, <3>2, <3>3
    <2> QED
      BY <2>2, <2>3
  <1>12. ASSUME NEW n \in Nat PROVE Step(n)
    <2> DEFINE K == {m \in 0..n : Step(m)}
    <2> HIDE DEF Step
    <2>1. 0 \in K
      BY <1>10
    <2>2. \A m \in 1..n : m - 1 \in K => m \in K
      BY <1>11
    <2> HIDE DEF K
    <2>3. 0..n \subseteq K
      BY <2>1, <2>2, NatSetInduction
    <2> QED
      BY <2>3 DEF K
  <1>13. T \subseteq [anc : D, desc : D, depth : Nat]
    <2> SUFFICES ASSUME NEW r \in T PROVE r \in [anc : D, desc : D, depth : Nat]
      OBVIOUS
    <2>1. r = Row(r.anc, r.desc, r.depth) /\ r.anc \in D /\ r.desc \in D /\ r.depth \in Nat
      BY <1>3, <1>5
    <2> QED
      BY <2>1 DEF Row
  <1>14. \A d \in D : parent[d] \in D \cup {Root}
    BY <1>4
  <1> QED
    BY <1>9, <1>12, <1>13, <1>14 DEF Faithful, T

\* A hierarchy has only one faithful table.
LEMMA FaithfulTablesAgree ==
  ASSUME NEW parent, NEW T, Faithful(T, parent), NEW U, Faithful(U, parent)
  PROVE  T = U
  <1> DEFINE D == DOMAIN parent
             Same(n) == \A a, d \in D : Row(a, d, n) \in T <=> Row(a, d, n) \in U
  <1>1. Same(0)
    BY DEF Faithful
  <1>2. ASSUME NEW n \in Nat, n > 0, Same(n - 1) PROVE Same(n)
    <2> SUFFICES ASSUME NEW a \in D, NEW d \in D PROVE Row(a, d, n) \in T <=> Row(a, d, n) \in U
      OBVIOUS
    <2>1. n - 1 \in Nat /\ (n - 1) + 1 = n
      BY <1>2
    <2>2. Row(a, d, n) \in T <=> parent[d] # Root /\ Row(a, parent[d], n - 1) \in T
      BY <2>1 DEF Faithful
    <2>3. Row(a, d, n) \in U <=> parent[d] # Root /\ Row(a, parent[d], n - 1) \in U
      BY <2>1 DEF Faithful
    <2>4. parent[d] # Root => parent[d] \in D
      BY DEF Faithful
    <2> QED
      BY <1>2, <2>2, <2>3, <2>4
  <1>3. ASSUME NEW n \in Nat PROVE Same(n)
    <2> DEFINE K == {m \in 0..n : Same(m)}
    <2> HIDE DEF Same
    <2>1. 0 \in K
      BY <1>1
    <2>2. \A m \in 1..n : m - 1 \in K => m \in K
      BY <1>2
    <2> HIDE DEF K
    <2>3. 0..n \subseteq K
      BY <2>1, <2>2, NatSetInduction
    <2> QED
      BY <2>3 DEF K
  <1>4. ASSUME NEW r \in T \cup U PROVE r \in T <=> r \in U
    <2>1. r = Row(r.anc, r.desc, r.depth) /\ r.anc \in D /\ r.desc \in D /\ r.depth \in Nat
      BY RowOf DEF Faithful
    <2> QED
      BY <1>3, <2>1
  <1> QED
    BY <1>4

-----------------------------------------------------------------------------
(* Whole insertions                                                         *)

\* A hierarchy that can be ranked has no cycle: the level of a group is at
\* most its rank.
LEMMA RankedIsAcyclic ==
  ASSUME NEW parent, IsFiniteSet(DOMAIN parent), NEW rank, Ranks(parent, rank)
  PROVE  Acyclic(parent)
  <1> DEFINE D == DOMAIN parent
             N == Cardinality(D)
  <1>1. N \in Nat
    BY FS_CardinalityType
  <1>2. PICK r : ReachStages(parent, r)
    BY <1>1, ReachedByLevel
  <1>3. r[0] = {} /\ \A n \in 1..N : r[n] = Lower(parent, r[n - 1])
    BY <1>2 DEF ReachStages
  <1>4. \A g \in D : /\ rank[g] \in 1..N
                     /\ parent[g] # Root => parent[g] \in D /\ rank[parent[g]] < rank[g]
    BY DEF Ranks
  <1> DEFINE S == {n \in 0..N : r[n] \subseteq D /\ \A g \in D : rank[g] <= n => g \in r[n]}
  <1>5. 0 \in S
    BY <1>1, <1>3, <1>4
  <1>6. ASSUME NEW n \in 1..N, n - 1 \in S PROVE n \in S
    <2>1. /\ r[n] = Lower(parent, r[n - 1]) /\ r[n - 1] \subseteq D
          /\ \A g \in D : rank[g] <= n - 1 => g \in r[n - 1]
      BY <1>3, <1>6
    <2>2. ASSUME NEW g \in D, rank[g] <= n PROVE g \in r[n]
      <3>1. CASE parent[g] = Root
        BY <2>1, <3>1 DEF Lower
      <3>2. CASE parent[g] # Root
        <4>1. parent[g] \in D /\ rank[parent[g]] \in 1..N /\ rank[parent[g]] < rank[g]
          BY <1>4, <3>2
        <4>2. rank[parent[g]] <= n - 1
          BY <1>1, <1>4, <2>2, <4>1
        <4> QED
          BY <2>1, <4>1, <4>2 DEF Lower
      <3> QED
        BY <3>1, <3>2
    <2>3. r[n] \subseteq D
      BY <2>1 DEF Lower
    <2> QED
      BY <1>1, <2>2, <2>3
  <1> HIDE DEF S, N
  <1>7. 0..N \subseteq S
    BY <1>1, <1>5, <1>6, NatSetInduction
  <1>8. r[N] \subseteq D /\ \A g \in D : g \in r[N]
    BY <1>1, <1>4, <1>7 DEF S
  <1>9. r[N] = D
    BY <1>8
  <1> QED
    BY <1>2, <1>9 DEF ReachStages, N

LeafStages(T, N, parents, rows) ==
  /\ rows[0] = T
  /\ \A k \in 1..Len(parents) : rows[k] = InsertLeaf(rows[k - 1], N + k, parents[k])
  /\ InsertLeaves(T, N, parents) = rows[Len(parents)]

\* The new groups are saved one after the other.
LEMMA LeavesByOne ==
  ASSUME NEW T, NEW N \in Nat, NEW parents, Len(parents) \in Nat
  PROVE  \E rows : LeafStages(T, N, parents, rows)
  <1> DEFINE L == Len(parents)
             Upto(f, m) == f = [k \in 0..m |-> IF k = 0 THEN T
                                               ELSE InsertLeaf(f[k - 1], N + k, parents[k])]
             S == {m \in 0..L : \E f : Upto(f, m)}
  <1>1. 0 \in S
    <2> DEFINE f == [i \in 0..0 |-> T]
    <2>1. Upto(f, 0)
      OBVIOUS
    <2> HIDE DEF f, Upto
    <2> QED
      BY <2>1
  <1>2. ASSUME NEW n \in 1..L, n - 1 \in S PROVE n \in S
    <2>1. PICK f : Upto(f, n - 1)
      BY <1>2
    <2> DEFINE h == [i \in 0..n |-> IF i = n THEN InsertLeaf(f[n - 1], N + n, parents[n])
                                    ELSE f[i]]
    <2>2. h[0] = T
      BY <2>1
    <2>3. ASSUME NEW i \in 1..n PROVE h[i] = InsertLeaf(h[i - 1], N + i, parents[i])
      <3>1. h[i - 1] = f[i - 1]
        OBVIOUS
      <3>2. i # n => f[i] = InsertLeaf(f[i - 1], N + i, parents[i])
        BY <2>1
      <3> QED
        BY <3>1, <3>2
    <2>4. Upto(h, n)
      <3> DEFINE k == [i \in 0..n |-> IF i = 0 THEN T
                                      ELSE InsertLeaf(h[i - 1], N + i, parents[i])]
      <3>1. \A i \in 0..n : h[i] = k[i]
        <4> SUFFICES ASSUME NEW i \in 0..n PROVE h[i] = k[i]
          OBVIOUS
        <4>1. CASE i = 0
          BY <4>1, <2>2
        <4>2. CASE i # 0
          <5>1. i \in 1..n
            BY <4>2
          <5> HIDE DEF h
          <5> QED
            BY <4>2, <5>1, <2>3
        <4> QED
          BY <4>1, <4>2
      <3>2. DOMAIN h = 0..n /\ h = [i \in DOMAIN h |-> h[i]]
        OBVIOUS
      <3>3. DOMAIN k = 0..n /\ k = [i \in DOMAIN k |-> k[i]]
        OBVIOUS
      <3>4. h = k
        <4> HIDE DEF h, k
        <4> QED
          BY <3>1, <3>2, <3>3
      <3> QED
        BY <3>4
    <2> HIDE DEF h, Upto
    <2> QED
      BY <2>4
  <1> HIDE DEF S
  <1>3. 0..L \subseteq S
    <2>1. L \in Nat /\ \A n \in 1..L : n - 1 \in S => n \in S
      BY <1>2
    <2> HIDE DEF L
    <2> QED
      BY <1>1, <2>1, NatSetInduction
  <1>4. \E f : Upto(f, L)
    <2>1. L \in S
      BY <1>3
    <2> HIDE DEF Upto
    <2> QED
      BY <2>1 DEF S
  <1> DEFINE rows == CHOOSE f : Upto(f, L)
  <1>5. Upto(rows, L)
    BY <1>4
  <1>6. InsertLeaves(T, N, parents) = rows[L]
    BY DEF InsertLeaves
  <1> HIDE DEF rows
  <1>7. rows[0] = T /\ \A k \in 1..L : rows[k] = InsertLeaf(rows[k - 1], N + k, parents[k])
    BY <1>5
  <1> QED
    BY <1>6, <1>7 DEF LeafStages

\* G is the hierarchy F of N groups with n more, each under an earlier one.
Grown(F, N, parents, n, G) ==
  /\ N \in Nat /\ n \in Nat /\ Len(parents) = n
  /\ DOMAIN F = 1..N /\ DOMAIN G = 1..(N + n) /\ G = [g \in DOMAIN G |-> G[g]]
  /\ \A g \in 1..N : G[g] = F[g]
  /\ \A k \in 1..n : G[N + k] = parents[k] /\ parents[k] \in 0..(N + k - 1)

\* New groups, each under one that was saved before it, leave the hierarchy
\* without a cycle and the table with its paths.
LEMMA LeavesKeepExact ==
  ASSUME NEW F, NEW N, NEW parents, NEW n, NEW G, Grown(F, N, parents, n, G), Acyclic(F)
  PROVE  Acyclic(G) /\ InsertLeaves(PathsOf(F), N, parents) = PathsOf(G)
  <1> /\ N \in Nat /\ n \in Nat /\ Len(parents) = n
      /\ DOMAIN F = 1..N /\ DOMAIN G = 1..(N + n) /\ G = [g \in DOMAIN G |-> G[g]]
      /\ \A g \in 1..N : G[g] = F[g]
      /\ \A k \in 1..n : G[N + k] = parents[k] /\ parents[k] \in 0..(N + k - 1)
    BY DEF Grown
  <1>1. /\ IsFiniteSet(DOMAIN F) /\ Cardinality(DOMAIN F) = N /\ Root \notin DOMAIN F
        /\ IsFiniteSet(DOMAIN G) /\ Cardinality(DOMAIN G) = N + n /\ Root \notin DOMAIN G
    <2>1. ASSUME NEW m \in Nat PROVE IsFiniteSet(1..m) /\ Cardinality(1..m) = m
      <3>1. 1 \in Int /\ m \in Int
        OBVIOUS
      <3>2. IsFiniteSet(1..m) /\ Cardinality(1..m) = IF 1 > m THEN 0 ELSE m - 1 + 1
        BY <3>1, FS_Interval
      <3> QED
        BY <3>1, <3>2
    <2>2. N + n \in Nat
      OBVIOUS
    <2> QED
      BY <2>1, <2>2 DEF Root
  <1>2. Acyclic(G)
    <2>1. PICK rank : Ranks(F, rank)
      BY <1>1, AcyclicRank
    <2>2. \A g \in 1..N : /\ rank[g] \in 1..N
                          /\ F[g] # Root => F[g] \in 1..N /\ rank[F[g]] < rank[g]
      BY <1>1, <2>1 DEF Ranks
    <2> DEFINE new == [g \in 1..(N + n) |-> IF g <= N THEN rank[g] ELSE g]
    <2>3. \A g \in 1..(N + n) : /\ new[g] \in 1..(N + n)
                                /\ g <= N => new[g] = rank[g] /\ new[g] <= N
                                /\ g > N => new[g] = g
      BY <2>2
    <2>4. new \in [DOMAIN G -> Nat]
      BY <2>3
    <2> HIDE DEF new
    <2>5. ASSUME NEW g \in 1..(N + n), G[g] # Root
          PROVE  G[g] \in 1..(N + n) /\ new[G[g]] < new[g]
      <3>1. CASE g <= N
        <4>1. g \in 1..N /\ G[g] = F[g]
          BY <3>1
        <4>2. F[g] \in 1..N /\ rank[F[g]] < rank[g]
          BY <2>2, <2>5, <4>1
        <4>3. F[g] \in 1..(N + n) /\ F[g] <= N
          BY <4>2
        <4> QED
          BY <2>3, <3>1, <4>1, <4>2, <4>3
      <3>2. CASE g > N
        <4> DEFINE k == g - N
        <4>1. k \in 1..n /\ g = N + k
          BY <3>2
        <4>2. G[g] \in 0..(N + k - 1)
          BY <4>1
        <4>3. G[g] \in 1..(N + n) /\ G[g] < g
          BY <2>5, <4>1, <4>2 DEF Root
        <4> HIDE DEF k
        <4>4. new[G[g]] <= G[g] \/ new[G[g]] <= N
          BY <2>3, <4>3
        <4> QED
          BY <2>3, <3>2, <4>3, <4>4
      <3> QED
        BY <3>1, <3>2
    <2>6. Ranks(G, new)
      BY <1>1, <2>3, <2>4, <2>5 DEF Ranks
    <2> QED
      BY <1>1, <2>6, RankedIsAcyclic
  <1> DEFINE T == PathsOf(F)
  <1>3. Faithful(T, F)
    BY <1>1, PathsAreFaithful
  <1> HIDE DEF T
  <1>4. PICK rows : LeafStages(T, N, parents, rows)
    BY LeavesByOne
  <1> DEFINE part(k) == [g \in 1..(N + k) |-> G[g]]
             S == {k \in 0..n : Faithful(rows[k], part(k))}
  <1>5. 0 \in S
    <2>1. rows[0] = T
      BY <1>4 DEF LeafStages
    <2>2. Faithful(T, part(0))
      <3>1. DOMAIN part(0) = DOMAIN F /\ \A g \in DOMAIN F : part(0)[g] = F[g]
        OBVIOUS
      <3> DEFINE p == part(0)
      <3>2. DOMAIN p = DOMAIN F /\ \A g \in DOMAIN F : p[g] = F[g]
        BY <3>1
      <3> HIDE DEF p
      <3>3. Faithful(T, p)
        BY <1>3, <3>2 DEF Faithful
      <3> QED
        BY <3>3 DEF p
    <2> QED
      BY <2>1, <2>2
  <1>6. ASSUME NEW k \in 1..n, k - 1 \in S PROVE k \in S
    <2> DEFINE old == part(k - 1)
               g == N + k
    <2>1. Faithful(rows[k - 1], old)
      BY <1>6
    <2>2. rows[k] = InsertLeaf(rows[k - 1], g, parents[k])
      BY <1>4 DEF LeafStages
    <2>3. /\ DOMAIN old = 1..(N + k - 1) /\ g \notin DOMAIN old /\ g # Root
          /\ parents[k] \in DOMAIN old \cup {Root}
      BY DEF Root
    <2>4. Planted(old, g, parents[k]) = part(k)
      <3>1. DOMAIN old \cup {g} = 1..(N + k)
        BY <2>3
      <3>2. \A d \in 1..(N + k) : (IF d = g THEN parents[k] ELSE old[d]) = G[d]
        OBVIOUS
      <3>3. Planted(old, g, parents[k]) =
              [d \in 1..(N + k) |-> IF d = g THEN parents[k] ELSE old[d]]
        <4> HIDE DEF old, g
        <4> QED
          BY <3>1 DEF Planted
      <3> QED
        BY <3>2, <3>3
    <2>5. Faithful(rows[k], Planted(old, g, parents[k]))
      <3> DEFINE U == rows[k - 1]
                 p == parents[k]
      <3>1. /\ Faithful(U, old) /\ rows[k] = InsertLeaf(U, g, p) /\ g \notin DOMAIN old
            /\ g # Root /\ p \in DOMAIN old \cup {Root}
        BY <2>1, <2>2, <2>3
      <3> HIDE DEF old, g, U, p
      <3>2. Faithful(InsertLeaf(U, g, p), Planted(old, g, p))
        BY <3>1, InsertLeafKeepsFaithful
      <3> QED
        BY <3>1, <3>2 DEF p
    <2> QED
      BY <2>4, <2>5
  <1> HIDE DEF S
  <1>7. 0..n \subseteq S
    BY <1>5, <1>6, NatSetInduction
  <1>8. Faithful(rows[n], G)
    <2>1. Faithful(rows[n], part(n))
      BY <1>7 DEF S
    <2>2. part(n) = G
      OBVIOUS
    <2> QED
      BY <2>1, <2>2
  <1>9. Faithful(PathsOf(G), G)
    BY <1>1, <1>2, PathsAreFaithful
  <1>10. rows[n] = PathsOf(G)
    BY <1>8, <1>9, FaithfulTablesAgree
  <1> QED
    BY <1>2, <1>4, <1>10 DEF LeafStages, T

\* The parents of the new groups, in the order in which they are saved.
ParentsOf(forms, s, N) ==
  [k \in DOMAIN s |->
     IF NewParent(forms, s[k]) = 0 THEN forms[s[k]].exist
     ELSE N + (CHOOSE j \in DOMAIN s : s[j] = NewParent(forms, s[k]))]

\* A form under another one comes after it in the order of insertion, so its
\* group is saved under one that has its number already.
LEMMA SavedUnderEarlier ==
  ASSUME NEW forms, NEW n \in Nat, DOMAIN forms = 1..n, NEW N \in Nat,
         FormsFit(forms, 1..N), NEW s \in InsertionOrders(forms)
  PROVE  LET parents == ParentsOf(forms, s, N)
         IN  /\ Len(parents) = n /\ parents \in Seq(Range(parents))
             /\ \A k \in 1..n : parents[k] \in 0..(N + k - 1)
  <1> DEFINE dep == [i \in DOMAIN forms |-> NewParent(forms, i)]
             parents == ParentsOf(forms, s, N)
  <1>1. DOMAIN dep = 1..n /\ IsFiniteSet(1..n) /\ s \in Orders(dep)
    BY FS_Interval DEF InsertionOrders
  <1>2. Cardinality(1..n) = n
    <2>1. 1 \in Int /\ n \in Int
      OBVIOUS
    <2>2. Cardinality(1..n) = IF 1 > n THEN 0 ELSE n - 1 + 1
      BY <2>1, FS_Interval
    <2> QED
      BY <2>2
  <1>3. \A i \in 1..n : dep[i] = NewParent(forms, i)
    OBVIOUS
  <1> HIDE DEF dep
  <1>4. /\ s \in [1..n -> 1..n]
        /\ \A g \in 1..n : \E i \in 1..n : s[i] = g
        /\ \A i, j \in 1..n : dep[s[j]] = s[i] => i < j
    <2>1. IsFiniteSet(DOMAIN dep) /\ Cardinality(DOMAIN dep) = n
      BY <1>1, <1>2
    <2> DEFINE m == Cardinality(DOMAIN dep)
    <2>2. /\ s \in [1..m -> DOMAIN dep]
          /\ \A g \in DOMAIN dep : \E i \in 1..m : s[i] = g
          /\ \A i, j \in 1..m : dep[s[j]] = s[i] => i < j
      BY <1>1, <2>1, OrderIs
    <2> QED
      BY <1>1, <2>1, <2>2
  <1>5. DOMAIN s = 1..n /\ \A k \in 1..n : s[k] \in 1..n
    BY <1>4
  <1>6. DOMAIN parents = 1..n
    BY <1>5 DEF ParentsOf
  <1>7. ASSUME NEW k \in 1..n PROVE parents[k] \in 0..(N + k - 1)
    <2> DEFINE m == NewParent(forms, s[k])
    <2>1. /\ s[k] \in 1..n /\ forms[s[k]].exist \in (1..N) \cup {Root}
          /\ m \in 1..n \cup {0} /\ dep[s[k]] = m
      BY <1>3, <1>5 DEF FormsFit
    <2>2. parents[k] = IF m = 0 THEN forms[s[k]].exist
                       ELSE N + (CHOOSE j \in DOMAIN s : s[j] = m)
      BY <1>5 DEF ParentsOf
    <2> HIDE DEF m, parents
    <2>3. CASE m = 0
      BY <2>1, <2>2, <2>3 DEF Root
    <2>4. CASE m # 0
      <3> DEFINE j == CHOOSE j \in DOMAIN s : s[j] = m
      <3>1. j \in 1..n /\ s[j] = m
        BY <1>4, <1>5, <2>1, <2>4
      <3>2. parents[k] = N + j
        BY <2>2, <2>4
      <3> HIDE DEF j
      <3>3. j < k
        BY <1>4, <2>1, <3>1
      <3> QED
        BY <3>1, <3>2, <3>3
    <2> QED
      BY <2>3, <2>4
  <1>8. parents \in Seq(Range(parents)) /\ Len(parents) = n
    <2>1. parents = [k \in DOMAIN parents |-> parents[k]]
      BY DEF ParentsOf
    <2> HIDE DEF parents
    <2>2. parents \in [1..n -> Range(parents)]
      BY <1>6, <2>1 DEF Range
    <2>3. parents \in Seq(Range(parents))
      BY <2>2
    <2>4. Len(parents) \in Nat /\ 1..Len(parents) = 1..n
      BY <1>6, <2>3, LenProperties
    <2>5. Len(parents) = n
      BY <2>4
    <2> QED
      BY <2>3, <2>5
  <1> QED
    BY <1>7, <1>8

\* A transaction that inserts groups leaves the table exact.
LEMMA InsertKeepsExact ==
  ASSUME FormsetInv, Exact, NEW w \in Workers, Insert(w)
  PROVE  Exact'
  <1> DEFINE N == Cardinality(Groups)
             forms == req[w].posted
             n == Len(forms)
             s == CHOOSE order \in InsertionOrders(forms) : TRUE
             parents == ParentsOf(forms, s, N)
             G == forest \o parents
  <1>1. forest' = G /\ closure' = SetToBag(InsertLeaves(Table, N, parents))
    BY DEF Insert, Commit, ParentsOf
  <1>2. /\ forest \in Seq(Range(forest)) /\ Len(forest) \in Nat /\ Groups = 1..Len(forest)
        /\ RequestInv(req[w], Table, Groups) /\ req[w].phase = "new"
    BY GroupsAreNumbered DEF FormsetInv, Insert
  <1>3. N = Len(forest)
    <2>1. 1 \in Int /\ Len(forest) \in Int
      BY <1>2
    <2>2. Cardinality(1..Len(forest)) = IF 1 > Len(forest) THEN 0 ELSE Len(forest) - 1 + 1
      BY <2>1, FS_Interval
    <2> QED
      BY <1>2, <2>2
  <1>4. /\ forms \in Seq(Range(forms)) /\ InsertionOrders(forms) # {}
        /\ FormsFit(forms, Groups)
    BY <1>2 DEF RequestInv
  <1>5. n \in Nat /\ DOMAIN forms = 1..n
    BY <1>4, LenProperties
  <1>6. s \in InsertionOrders(forms)
    BY <1>4
  <1> HIDE DEF N, n, forms, s
  <1>7. /\ Len(parents) = n /\ parents \in Seq(Range(parents))
        /\ \A k \in 1..n : parents[k] \in 0..(N + k - 1)
    BY <1>2, <1>3, <1>4, <1>5, <1>6, SavedUnderEarlier
  <1> HIDE DEF parents
  <1>8. /\ G \in Seq(Range(forest) \cup Range(parents)) /\ Len(G) = N + n
        /\ \A i \in 1..(N + n) : G[i] = IF i <= N THEN forest[i] ELSE parents[i - N]
    <2> DEFINE S == Range(forest) \cup Range(parents)
    <2>1. forest \in Seq(S) /\ parents \in Seq(S)
      <3>1. Range(forest) \subseteq S /\ Range(parents) \subseteq S
        OBVIOUS
      <3> HIDE DEF S
      <3> QED
        BY <1>2, <1>7, <3>1, SeqMonotonic
    <2> HIDE DEF S
    <2> QED
      BY <1>3, <1>7, <2>1, ConcatProperties DEF S
  <1>9. DOMAIN G = 1..(N + n) /\ G = [g \in DOMAIN G |-> G[g]]
    <2> DEFINE S == Range(forest) \cup Range(parents)
    <2> HIDE DEF G, S
    <2>1. G \in Seq(S) /\ Len(G) = N + n
      BY <1>8 DEF S
    <2> QED
      BY <2>1, LenProperties
  <1> HIDE DEF G
  <1>10. N \in Nat /\ DOMAIN forest = 1..N
    BY <1>2, <1>3 DEF Groups
  <1>11. \A g \in 1..N : G[g] = forest[g]
    BY <1>5, <1>8, <1>10
  <1>12. ASSUME NEW k \in 1..n PROVE G[N + k] = parents[k] /\ parents[k] \in 0..(N + k - 1)
    <2>1. N + k \in 1..(N + n) /\ ~ (N + k <= N) /\ (N + k) - N = k
      BY <1>5, <1>10
    <2> QED
      BY <1>7, <1>8, <2>1
  <1>13. Acyclic(forest) /\ Table = PathsOf(forest)
    BY TableIsExact DEF Exact
  <1>14. Acyclic(G) /\ InsertLeaves(PathsOf(forest), N, parents) = PathsOf(G)
    <2>1. \A k \in 1..n : G[N + k] = parents[k] /\ parents[k] \in 0..(N + k - 1)
      BY <1>12
    <2>2. Len(parents) = n /\ Acyclic(forest)
      BY <1>7, <1>13
    <2>3. Grown(forest, N, parents, n, G)
      BY <1>5, <1>9, <1>10, <1>11, <2>1, <2>2 DEF Grown
    <2> QED
      BY <2>2, <2>3, LeavesKeepExact
  <1> QED
    BY <1>1, <1>13, <1>14 DEF Exact

\* The first step after which the table differs from the hierarchy that the
\* clients asked for, or that hierarchy has a cycle, is an update
\* (GenericUserGroupFormset.update).  No insertion is (insert), however many
\* groups it brings and whatever other requests run beside it.
THEOREM OnlyUpdatesBreak ==
  Spec => [][~ Exact' => \E w \in Workers : Update(w)]_vars
  <1>1. ASSUME FormsetInv, [Next]_vars
        PROVE  [~ Exact' => \E w \in Workers : Update(w)]_vars
    <2> SUFFICES ASSUME Next, ~ Exact' PROVE \E w \in Workers : Update(w)
      BY <1>1
    <2>1. Exact
      BY DEF Next
    <2>2. PICK w \in Workers :
            \/ PostNew(w) \/ PostEdit(w) \/ PlanEdit(w) \/ Spin(w)
            \/ Insert(w) \/ Update(w) \/ Rollback(w)
      BY DEF Next
    <2>3. CASE UNCHANGED <<closure, forest>>
      BY <2>1, <2>3 DEF Exact
    <2>4. CASE Insert(w)
      BY <1>1, <2>1, <2>4, InsertKeepsExact
    <2> QED
      BY <2>2, <2>3, <2>4 DEF PostNew, PostEdit, PlanEdit, Spin, Rollback
  <1> QED
    BY <1>1, FormsetInvariant, PTL DEF Spec

-----------------------------------------------------------------------------
(* Paths in a faithful table                                                *)

\* A path goes on along another one.
LEMMA PathsCompose ==
  ASSUME NEW T, NEW F, Faithful(T, F), NEW a, NEW b, NEW n \in Nat, Row(a, b, n) \in T,
         NEW d, NEW m \in Nat, Row(b, d, m) \in T
  PROVE  Row(a, d, n + m) \in T
  <1> DEFINE D == DOMAIN F
             P(i) == \A e \in D : Row(b, e, i) \in T => Row(a, e, n + i) \in T
             K == {i \in 0..m : P(i)}
  <1>1. T \subseteq [anc : D, desc : D, depth : Nat]
    BY DEF Faithful
  <1>2. a \in D /\ b \in D /\ d \in D
    <2>1. /\ Row(a, b, n).anc \in D /\ Row(b, d, m).desc \in D /\ Row(b, d, m).anc \in D
      BY <1>1
    <2> QED
      BY <2>1, RowFields
  <1>3. P(0)
    <2>1. \A e \in D : Row(b, e, 0) \in T => e = b
      BY <1>2 DEF Faithful
    <2> QED
      BY <2>1
  <1>4. ASSUME NEW i \in 1..m, P(i - 1) PROVE P(i)
    <2> SUFFICES ASSUME NEW e \in D, Row(b, e, i) \in T PROVE Row(a, e, n + i) \in T
      OBVIOUS
    <2>1. i - 1 \in Nat /\ (i - 1) + 1 = i /\ n + (i - 1) \in Nat /\ (n + (i - 1)) + 1 = n + i
      OBVIOUS
    <2>2. Row(b, e, (i - 1) + 1) \in T
      BY <2>1
    <2>3. F[e] # Root /\ Row(b, F[e], i - 1) \in T
      BY <1>2, <2>1, <2>2 DEF Faithful
    <2>4. F[e] \in D
      BY <2>3 DEF Faithful
    <2>5. Row(a, F[e], n + (i - 1)) \in T
      BY <1>4, <2>3, <2>4
    <2>6. Row(a, e, (n + (i - 1)) + 1) \in T
      BY <1>2, <2>1, <2>3, <2>5 DEF Faithful
    <2> QED
      BY <2>1, <2>6
  <1> HIDE DEF P
  <1>5. 0..m \subseteq K
    <2>1. 0 \in K /\ \A i \in 1..m : i - 1 \in K => i \in K
      BY <1>3, <1>4
    <2> HIDE DEF K
    <2> QED
      BY <2>1, NatSetInduction
  <1>6. P(m)
    BY <1>5
  <1> QED
    BY <1>2, <1>6 DEF P

\* A path of length n has one group at each distance from its end.
LEMMA PathsSplit ==
  ASSUME NEW T, NEW F, Faithful(T, F), NEW a, NEW d, NEW n \in Nat, Row(a, d, n) \in T,
         NEW m \in 0..n
  PROVE  \E b \in DOMAIN F : Row(b, d, m) \in T /\ Row(a, b, n - m) \in T
  <1> DEFINE D == DOMAIN F
             P(i) == \E b \in D : Row(b, d, i) \in T /\ Row(a, b, n - i) \in T
             K == {i \in 0..n : P(i)}
  <1>1. T \subseteq [anc : D, desc : D, depth : Nat]
    BY DEF Faithful
  <1>2. a \in D /\ d \in D
    <2>1. Row(a, d, n).anc \in D /\ Row(a, d, n).desc \in D
      BY <1>1
    <2> QED
      BY <2>1, RowFields
  <1>3. P(0)
    <2>1. Row(d, d, 0) \in T
      BY <1>2 DEF Faithful
    <2> QED
      BY <1>2, <2>1
  <1>4. ASSUME NEW i \in 1..n, P(i - 1) PROVE P(i)
    <2>1. PICK b \in D : Row(b, d, i - 1) \in T /\ Row(a, b, n - (i - 1)) \in T
      BY <1>4
    <2>2. n - i \in Nat /\ n - (i - 1) = (n - i) + 1 /\ i - 1 \in Nat /\ 1 + (i - 1) = i
      OBVIOUS
    <2>3. Row(a, b, (n - i) + 1) \in T
      BY <2>1, <2>2
    <2>4. F[b] # Root /\ Row(a, F[b], n - i) \in T
      BY <1>2, <2>2, <2>3 DEF Faithful
    <2>5. F[b] \in D
      BY <2>4 DEF Faithful
    <2>6. Row(F[b], F[b], 0) \in T
      BY <2>5 DEF Faithful
    <2>7. Row(F[b], b, 0 + 1) \in T
      BY <2>4, <2>5, <2>6 DEF Faithful
    <2>8. Row(F[b], b, 1) \in T
      BY <2>7
    <2>9. Row(F[b], d, 1 + (i - 1)) \in T
      BY <2>1, <2>2, <2>8, PathsCompose
    <2> QED
      BY <2>2, <2>4, <2>5, <2>9
  <1> HIDE DEF P
  <1>5. 0..n \subseteq K
    <2>1. 0 \in K /\ \A i \in 1..n : i - 1 \in K => i \in K
      BY <1>3, <1>4
    <2> HIDE DEF K
    <2> QED
      BY <2>1, NatSetInduction
  <1>6. P(m)
    BY <1>5
  <1> QED
    BY <1>6 DEF P

\* There is one group at each distance above another.
LEMMA OneAtEachDistance ==
  ASSUME NEW T, NEW F, Faithful(T, F), NEW a, NEW b, NEW d, NEW n \in Nat,
         Row(a, d, n) \in T, Row(b, d, n) \in T
  PROVE  a = b
  <1> DEFINE D == DOMAIN F
             P(i) == \A e \in D : Row(a, e, i) \in T /\ Row(b, e, i) \in T => a = b
             K == {i \in 0..n : P(i)}
  <1>1. T \subseteq [anc : D, desc : D, depth : Nat]
    BY DEF Faithful
  <1>2. a \in D /\ b \in D /\ d \in D
    <2>1. Row(a, d, n).anc \in D /\ Row(a, d, n).desc \in D /\ Row(b, d, n).anc \in D
      BY <1>1
    <2> QED
      BY <2>1, RowFields
  <1>3. P(0)
    BY <1>2 DEF Faithful
  <1>4. ASSUME NEW i \in 1..n, P(i - 1) PROVE P(i)
    <2> SUFFICES ASSUME NEW e \in D, Row(a, e, i) \in T, Row(b, e, i) \in T PROVE a = b
      OBVIOUS
    <2>1. i - 1 \in Nat /\ i = (i - 1) + 1
      OBVIOUS
    <2>2. Row(a, e, (i - 1) + 1) \in T /\ Row(b, e, (i - 1) + 1) \in T
      BY <2>1
    <2>3. F[e] # Root /\ Row(a, F[e], i - 1) \in T /\ Row(b, F[e], i - 1) \in T
      <3>1. F[e] # Root /\ Row(a, F[e], i - 1) \in T
        BY <1>2, <2>1, <2>2 DEF Faithful
      <3>2. Row(b, F[e], i - 1) \in T
        BY <1>2, <2>1, <2>2 DEF Faithful
      <3> QED
        BY <3>1, <3>2
    <2>4. F[e] \in D
      BY <2>3 DEF Faithful
    <2> QED
      BY <1>4, <2>3, <2>4
  <1> HIDE DEF P
  <1>5. 0..n \subseteq K
    <2>1. 0 \in K /\ \A i \in 1..n : i - 1 \in K => i \in K
      BY <1>3, <1>4
    <2> HIDE DEF K
    <2> QED
      BY <2>1, NatSetInduction
  <1>6. P(n)
    BY <1>5
  <1> QED
    BY <1>2, <1>6 DEF P

\* A table of a hierarchy without a cycle.
Tree(T, F) ==
  /\ Faithful(T, F)
  /\ \A a : \A n \in Nat : Row(a, a, n) \in T => n = 0

\* Of two groups above a third one the farther is above the nearer.
LEMMA AboveOneLine ==
  ASSUME NEW T, NEW F, Faithful(T, F), NEW a, NEW b, NEW d, NEW n \in Nat, NEW m \in Nat,
         Row(a, d, n) \in T, Row(b, d, m) \in T, n <= m
  PROVE  Row(b, a, m - n) \in T
  <1>1. n \in 0..m
    OBVIOUS
  <1>2. PICK c \in DOMAIN F : Row(c, d, n) \in T /\ Row(b, c, m - n) \in T
    BY <1>1, PathsSplit
  <1>3. c = a
    BY <1>2, OneAtEachDistance
  <1> QED
    BY <1>2, <1>3

\* Only one path leads from one group to another.
LEMMA OneDistance ==
  ASSUME NEW T, NEW F, Tree(T, F), NEW a, NEW d, NEW n \in Nat, NEW m \in Nat,
         Row(a, d, n) \in T, Row(a, d, m) \in T
  PROVE  n = m
  <1>1. ASSUME NEW i \in Nat, NEW j \in Nat, Row(a, d, i) \in T, Row(a, d, j) \in T, i <= j
        PROVE  i = j
    <2>1. Row(a, a, j - i) \in T /\ j - i \in Nat
      BY <1>1, AboveOneLine DEF Tree
    <2>2. j - i = 0
      BY <2>1 DEF Tree
    <2> QED
      BY <2>2
  <1> QED
    BY <1>1

\* The paths of an acyclic hierarchy are such a table.
LEMMA AcyclicIsTree ==
  ASSUME NEW F, IsFiniteSet(DOMAIN F), Root \notin DOMAIN F, Acyclic(F)
  PROVE  Tree(PathsOf(F), F)
  <1> DEFINE T == PathsOf(F)
             N == Cardinality(DOMAIN F)
  <1>1. N \in Nat /\ Sound(F, T, N)
    BY PathsAreSound
  <1>2. PICK rank : Ranks(F, rank)
    BY AcyclicRank
  <1>3. Faithful(T, F)
    BY PathsAreFaithful
  <1> HIDE DEF T, N
  <1>4. \A r \in T : r.anc \in DOMAIN F /\ rank[r.anc] + r.depth <= rank[r.desc]
    BY <1>1, <1>2, PathsAreShort
  <1>5. ASSUME NEW a, NEW n \in Nat, Row(a, a, n) \in T PROVE n = 0
    <2>1. /\ Row(a, a, n).anc = a /\ Row(a, a, n).desc = a /\ Row(a, a, n).depth = n
      BY RowFields
    <2>2. a \in DOMAIN F /\ rank[a] + n <= rank[a]
      BY <1>4, <1>5, <2>1
    <2>3. rank[a] \in Nat
      BY <1>2, <2>2 DEF Ranks
    <2> QED
      BY <2>2, <2>3
  <1> QED
    BY <1>3, <1>5 DEF Tree, T

-----------------------------------------------------------------------------
(* What moves when the hierarchy F becomes H                                *)

Moved(F, H) == {g \in DOMAIN F : H[g] # F[g]}

\* g is the nearest of the groups E above d, or d itself, at distance j.
Under(T, E, g, d, j) ==
  /\ g \in E /\ j \in Nat /\ Row(g, d, j) \in T
  /\ \A h \in E : \A i \in Nat : Row(h, d, i) \in T => j <= i

\* None of them is.
Still(T, E, d) == \A h \in E : \A i \in Nat : Row(h, d, i) \notin T

\* Among the groups of E above d there is a nearest one.
LEMMA NearestExists ==
  ASSUME NEW T, NEW E, NEW d, ~ Still(T, E, d)
  PROVE  \E g \in E : \E j \in Nat : Under(T, E, g, d, j)
  <1> DEFINE S == {i \in Nat : \E h \in E : Row(h, d, i) \in T}
  <1>1. S \subseteq Nat /\ S # {}
    BY DEF Still
  <1>2. PICK j \in S : \A i \in S : j <= i
    <2> HIDE DEF S
    <2> QED
      BY <1>1, LeastNumber
  <1>3. PICK g \in E : Row(g, d, j) \in T
    OBVIOUS
  <1> QED
    BY <1>2, <1>3 DEF Under

\* There is no second nearest one.
LEMMA NearestIsOne ==
  ASSUME NEW T, NEW F, Faithful(T, F), NEW E, NEW d, NEW g, NEW j, Under(T, E, g, d, j),
         NEW h, NEW i, Under(T, E, h, d, i)
  PROVE  g = h /\ j = i
  <1>1. j \in Nat /\ i \in Nat /\ j <= i /\ i <= j
    BY DEF Under
  <1>2. j = i
    BY <1>1
  <1> QED
    BY <1>1, <1>2, OneAtEachDistance DEF Under

\* Where nothing above moves, the paths are the same.
LEMMA StillPaths ==
  ASSUME NEW T, NEW F, Faithful(T, F), NEW U, NEW H, Faithful(U, H), DOMAIN H = DOMAIN F,
         NEW d \in DOMAIN F, Still(T, Moved(F, H), d), NEW a, NEW n \in Nat
  PROVE  Row(a, d, n) \in U <=> Row(a, d, n) \in T
  <1> DEFINE D == DOMAIN F
             E == Moved(F, H)
             P(i) == \A e \in D : Still(T, E, e) => (Row(a, e, i) \in U <=> Row(a, e, i) \in T)
             K == {i \in 0..n : P(i)}
  <1>1. \A b, e, i : Row(b, e, i) \in T \cup U => b \in D
    <2> SUFFICES ASSUME NEW b, NEW e, NEW i, Row(b, e, i) \in T \cup U PROVE b \in D
      OBVIOUS
    <2>1. Row(b, e, i).anc \in D
      BY DEF Faithful
    <2> QED
      BY <2>1, RowFields
  <1>2. CASE a \notin D
    BY <1>1, <1>2
  <1>3. CASE a \in D
    <2>1. P(0)
      BY <1>3 DEF Faithful
    <2>2. ASSUME NEW i \in 1..n, P(i - 1) PROVE P(i)
      <3> SUFFICES ASSUME NEW e \in D, Still(T, E, e)
                   PROVE  Row(a, e, i) \in U <=> Row(a, e, i) \in T
        OBVIOUS
      <3>1. H[e] = F[e]
        <4>1. Row(e, e, 0) \in T
          BY DEF Faithful
        <4>2. e \notin E
          BY <4>1 DEF Still
        <4> QED
          BY <4>2 DEF Moved
      <3> DEFINE k == i - 1
      <3>2. k \in Nat /\ i = k + 1 /\ P(k)
        BY <2>2
      <3> HIDE DEF k
      <3>3. Row(a, e, k + 1) \in U <=> F[e] # Root /\ Row(a, F[e], k) \in U
        BY <1>3, <3>1, <3>2 DEF Faithful
      <3>4. Row(a, e, k + 1) \in T <=> F[e] # Root /\ Row(a, F[e], k) \in T
        BY <1>3, <3>2 DEF Faithful
      <3>5. CASE F[e] = Root
        BY <3>2, <3>3, <3>4, <3>5
      <3>6. CASE F[e] # Root
        <4>1. F[e] \in D
          BY <3>6 DEF Faithful
        <4>2. Still(T, E, F[e])
          <5> SUFFICES ASSUME NEW h \in E, NEW l \in Nat, Row(h, F[e], l) \in T PROVE FALSE
            BY DEF Still
          <5>1. h \in D
            BY DEF Moved
          <5>2. Row(h, e, l + 1) \in T
            BY <3>6, <5>1 DEF Faithful
          <5>3. l + 1 \in Nat
            OBVIOUS
          <5> QED
            BY <5>2, <5>3 DEF Still
        <4>3. Row(a, F[e], k) \in U <=> Row(a, F[e], k) \in T
          BY <3>2, <4>1, <4>2
        <4> QED
          BY <3>2, <3>3, <3>4, <4>3
      <3> QED
        BY <3>5, <3>6
    <2> HIDE DEF P
    <2>3. 0..n \subseteq K
      <3>1. 0 \in K /\ \A i \in 1..n : i - 1 \in K => i \in K
        BY <2>1, <2>2
      <3> HIDE DEF K
      <3> QED
        BY <3>1, NatSetInduction
    <2>4. P(n)
      BY <2>3
    <2> QED
      BY <2>4 DEF P
  <1> QED
    BY <1>2, <1>3

\* Up to the nearest moved tree the paths are the same, and beyond it they are
\* those of that tree.
LEMMA MovedPaths ==
  ASSUME NEW T, NEW F, Faithful(T, F), NEW U, NEW H, Faithful(U, H), DOMAIN H = DOMAIN F,
         NEW d \in DOMAIN F, NEW g, NEW j, Under(T, Moved(F, H), g, d, j), NEW a
  PROVE  /\ \A n \in 0..j : Row(a, d, n) \in U <=> Row(a, d, n) \in T
         /\ \A n \in Nat : Row(a, d, j + n) \in U <=> Row(a, g, n) \in U
  <1> DEFINE D == DOMAIN F
             E == Moved(F, H)
             Near(i, e) == \A n \in 0..i : Row(a, e, n) \in U <=> Row(a, e, n) \in T
             Far(i, e) == \A n \in Nat : Row(a, e, i + n) \in U <=> Row(a, g, n) \in U
             P(i) == \A e \in D : Under(T, E, g, e, i) => Near(i, e) /\ Far(i, e)
             K == {i \in 0..j : P(i)}
  <1>1. \A b, e, i : Row(b, e, i) \in T \cup U => b \in D
    <2> SUFFICES ASSUME NEW b, NEW e, NEW i, Row(b, e, i) \in T \cup U PROVE b \in D
      OBVIOUS
    <2>1. Row(b, e, i).anc \in D
      BY DEF Faithful
    <2> QED
      BY <2>1, RowFields
  <1>2. j \in Nat /\ g \in E /\ g \in D
    BY DEF Under, Moved
  <1>3. CASE a \notin D
    BY <1>1, <1>3
  <1>4. CASE a \in D
    <2>1. P(0)
      <3> SUFFICES ASSUME NEW e \in D, Under(T, E, g, e, 0) PROVE Near(0, e) /\ Far(0, e)
        OBVIOUS
      <3>1. e = g
        BY <1>2 DEF Under, Faithful
      <3>2. Row(a, e, 0) \in U <=> Row(a, e, 0) \in T
        BY <1>4 DEF Faithful
      <3>3. \A n \in 0..0 : n = 0
        OBVIOUS
      <3> QED
        BY <3>1, <3>2, <3>3
    <2>2. ASSUME NEW i \in 1..j, P(i - 1) PROVE P(i)
      <3> SUFFICES ASSUME NEW e \in D, Under(T, E, g, e, i) PROVE Near(i, e) /\ Far(i, e)
        OBVIOUS
      <3> DEFINE k == i - 1
      <3>1. k \in Nat /\ i = k + 1 /\ P(k)
        BY <1>2, <2>2
      <3> HIDE DEF k
      <3>2. H[e] = F[e]
        <4>1. Row(e, e, 0) \in T
          BY DEF Faithful
        <4>2. e \notin E
          BY <3>1, <4>1 DEF Under
        <4> QED
          BY <4>2 DEF Moved
      <3>3. F[e] # Root /\ Row(g, F[e], k) \in T /\ F[e] \in D
        BY <1>2, <3>1 DEF Under, Faithful
      <3>4. Under(T, E, g, F[e], k)
        <4> SUFFICES ASSUME NEW h \in E, NEW l \in Nat, Row(h, F[e], l) \in T PROVE k <= l
          BY <1>2, <3>1, <3>3 DEF Under
        <4>1. h \in D
          BY DEF Moved
        <4>2. Row(h, e, l + 1) \in T
          BY <3>3, <4>1 DEF Faithful
        <4>3. i <= l + 1
          BY <4>2 DEF Under
        <4> QED
          BY <3>1, <4>3
      <3>5. Near(k, F[e]) /\ Far(k, F[e])
        BY <3>1, <3>3, <3>4
      <3>6. \A n \in Nat : Row(a, e, n + 1) \in U <=> Row(a, F[e], n) \in U
        BY <1>4, <3>2, <3>3 DEF Faithful
      <3>7. \A n \in Nat : Row(a, e, n + 1) \in T <=> Row(a, F[e], n) \in T
        BY <1>4, <3>3 DEF Faithful
      <3>8. ASSUME NEW n \in 0..i PROVE Row(a, e, n) \in U <=> Row(a, e, n) \in T
        <4>1. CASE n = 0
          BY <1>4, <4>1 DEF Faithful
        <4>2. CASE n # 0
          <5> DEFINE m == n - 1
          <5>1. m \in 0..k /\ m \in Nat /\ n = m + 1
            BY <3>1, <4>2
          <5> HIDE DEF m
          <5>2. Row(a, F[e], m) \in U <=> Row(a, F[e], m) \in T
            BY <3>5, <5>1
          <5> QED
            BY <3>6, <3>7, <5>1, <5>2
        <4> QED
          BY <4>1, <4>2
      <3>9. ASSUME NEW n \in Nat PROVE Row(a, e, i + n) \in U <=> Row(a, g, n) \in U
        <4>1. k + n \in Nat /\ i + n = (k + n) + 1
          BY <3>1
        <4>2. Row(a, e, (k + n) + 1) \in U <=> Row(a, F[e], k + n) \in U
          BY <3>6, <4>1
        <4>3. Row(a, F[e], k + n) \in U <=> Row(a, g, n) \in U
          BY <3>5
        <4> QED
          BY <4>1, <4>2, <4>3
      <3> QED
        BY <3>8, <3>9
    <2> HIDE DEF P
    <2>3. 0..j \subseteq K
      <3>1. 0 \in K /\ \A i \in 1..j : i - 1 \in K => i \in K
        BY <1>2, <2>1, <2>2
      <3> HIDE DEF K
      <3> QED
        BY <1>2, <3>1, NatSetInduction
    <2>4. P(j)
      BY <1>2, <2>3
    <2> QED
      BY <2>4 DEF P
  <1> QED
    BY <1>3, <1>4

\* The columns of a row of the table.
LEMMA InTable ==
  ASSUME NEW T, NEW F, Faithful(T, F), NEW a, NEW d, NEW n, Row(a, d, n) \in T
  PROVE  a \in DOMAIN F /\ d \in DOMAIN F /\ n \in Nat /\ a # Root /\ d # Root
  <1>1. T \subseteq [anc : DOMAIN F, desc : DOMAIN F, depth : Nat] /\ Root \notin DOMAIN F
    BY DEF Faithful
  <1>2. /\ Row(a, d, n).anc \in DOMAIN F /\ Row(a, d, n).desc \in DOMAIN F
        /\ Row(a, d, n).depth \in Nat
    BY <1>1
  <1> QED
    BY <1>1, <1>2, RowFields

\* What is above a group's parent is one nearer to it.
LEMMA OneUp ==
  ASSUME NEW U, NEW H, Faithful(U, H), NEW d \in DOMAIN H, NEW a, NEW n \in Nat
  PROVE  Row(a, d, n + 1) \in U <=> Row(a, H[d], n) \in U
  <1>1. CASE a \in DOMAIN H
    <2>1. Row(a, H[d], n) \in U => H[d] # Root
      BY InTable
    <2> QED
      BY <1>1, <2>1 DEF Faithful
  <1>2. CASE a \notin DOMAIN H
    BY <1>2, InTable
  <1> QED
    BY <1>1, <1>2

-----------------------------------------------------------------------------
(* The plan of an update                                                    *)

\* The update posted turns the hierarchy F, with the rows T, into H, with the
\* rows U, and no tree goes into itself.
Change(F, T, H, U, posted) ==
  /\ Tree(T, F) /\ Faithful(U, H) /\ IsFiniteSet(DOMAIN F)
  /\ \E N \in Nat : Sound(F, T, N)
  /\ \E N \in Nat : Sound(H, U, N)
  /\ DOMAIN posted \subseteq DOMAIN F
  /\ DOMAIN H = DOMAIN F
  /\ \A g \in DOMAIN F : H[g] = IF g \in DOMAIN posted THEN posted[g] ELSE F[g]
  /\ \A g \in DOMAIN posted : \A n \in Nat : Row(g, posted[g], n) \notin T

\* The trees an update edits are just the groups whose parent changes.
LEMMA MovedAre ==
  ASSUME NEW F, NEW T, NEW H, NEW U, NEW posted, Change(F, T, H, U, posted)
  PROVE  /\ EditTrees(T, posted) = Moved(F, H)
         /\ DOMAIN Dependency(T, posted) = Moved(F, H)
         /\ Moved(F, H) \subseteq DOMAIN posted /\ Moved(F, H) \subseteq DOMAIN F
         /\ IsFiniteSet(Moved(F, H)) /\ Root \notin Moved(F, H)
         /\ \A g \in Moved(F, H) : posted[g] = H[g]
  <1>1. EditTrees(T, posted) = {g \in DOMAIN posted : posted[g] # F[g]}
    BY OnlyMovedTreesAreEdited DEF Change, Tree
  <1>2. /\ DOMAIN posted \subseteq DOMAIN F
        /\ \A g \in DOMAIN F : H[g] = IF g \in DOMAIN posted THEN posted[g] ELSE F[g]
    BY DEF Change
  <1>3. EditTrees(T, posted) = Moved(F, H)
    BY <1>1, <1>2 DEF Moved
  <1>4. \A g \in Moved(F, H) : g \in DOMAIN posted /\ posted[g] = H[g] /\ g \in DOMAIN F
    BY <1>2 DEF Moved
  <1>5. IsFiniteSet(Moved(F, H))
    <2>1. Moved(F, H) \in SUBSET DOMAIN F
      BY <1>4
    <2> QED
      BY <2>1, FS_Subset DEF Change
  <1>6. Root \notin Moved(F, H)
    BY <1>4 DEF Change, Tree, Faithful
  <1>7. DOMAIN Dependency(T, posted) = EditTrees(T, posted)
    BY DEF Dependency
  <1> QED
    BY <1>3, <1>4, <1>5, <1>6, <1>7

\* _find_edit_tree_dependency finds the nearest moved tree above the new
\* parent, if there is one.
LEMMA DependencyMeans ==
  ASSUME NEW F, NEW T, NEW H, NEW U, NEW posted, Change(F, T, H, U, posted),
         NEW g \in Moved(F, H)
  PROVE  LET m == Dependency(T, posted)[g]
             E == Moved(F, H)
         IN  \/ m = Root /\ Still(T, E, H[g])
             \/ m \in E /\ m # g /\ \E j \in Nat : Under(T, E, m, H[g], j)
  <1> DEFINE m == Dependency(T, posted)[g]
             E == Moved(F, H)
  <1>1. EditTrees(T, posted) = E /\ posted[g] = H[g] /\ g \in DOMAIN posted
    BY MovedAre
  <1>2. PICK N \in Nat : Sound(F, T, N)
    BY DEF Change
  <1>3. \/ /\ m = Root
           /\ \A r \in T : r.desc = H[g] => r.anc \notin E \ {g}
        \/ /\ m \in E
           /\ \E r \in T : /\ r.desc = H[g] /\ r.anc = m
                           /\ \A q \in T : q.desc = H[g] /\ q.depth < r.depth =>
                                q.anc \notin E \ {g}
    BY <1>1, <1>2, DependencyIs
  <1> HIDE DEF m, E
  <1>4. \A n \in Nat : Row(g, H[g], n) \notin T
    BY <1>1 DEF Change
  <1>5. ASSUME m = Root, \A r \in T : r.desc = H[g] => r.anc \notin E \ {g}
        PROVE  Still(T, E, H[g])
    <2> SUFFICES ASSUME NEW h \in E, NEW i \in Nat, Row(h, H[g], i) \in T PROVE FALSE
      BY DEF Still
    <2>1. Row(h, H[g], i).desc = H[g] /\ Row(h, H[g], i).anc = h
      BY RowFields
    <2>2. h = g
      BY <1>5, <2>1
    <2> QED
      BY <1>4, <2>2
  <1>6. ASSUME NEW r \in T, r.desc = H[g], r.anc = m, m \in E,
               \A q \in T : q.desc = H[g] /\ q.depth < r.depth => q.anc \notin E \ {g}
        PROVE  m # g /\ \E j \in Nat : Under(T, E, m, H[g], j)
    <2>1. r = Row(m, H[g], r.depth) /\ r.depth \in Nat
      <3>1. T \subseteq [anc : DOMAIN F, desc : DOMAIN F, depth : Nat]
        BY DEF Change, Tree, Faithful
      <3> QED
        BY <1>6, <3>1, RowOf
    <2>2. m # g
      BY <1>4, <2>1
    <2>3. ASSUME NEW h \in E, NEW i \in Nat, Row(h, H[g], i) \in T PROVE r.depth <= i
      <3>1. /\ Row(h, H[g], i).desc = H[g] /\ Row(h, H[g], i).anc = h
            /\ Row(h, H[g], i).depth = i
        BY RowFields
      <3>2. h # g
        BY <1>4, <2>3
      <3>3. ~ (i < r.depth)
        BY <1>6, <2>3, <3>1, <3>2
      <3> QED
        BY <2>1, <3>3
    <2>4. Row(m, H[g], r.depth) \in T
      BY <2>1
    <2>5. Under(T, E, m, H[g], r.depth)
      BY <1>6, <2>1, <2>3, <2>4 DEF Under
    <2> QED
      BY <2>1, <2>2, <2>5
  <1> QED
    BY <1>3, <1>5, <1>6 DEF m, E

\* The list up, and then below from m on.
Joined(up, below, m) ==
  up \o SubSeq(below, SelectInSeq(below, LAMBDA a : a = m), Len(below))

\* The ancestors of p in the new hierarchy: those of the nearest moved tree m
\* above it, and then m and what is between m and p.
LEMMA AncestorsJoin ==
  ASSUME NEW F, NEW T, NEW H, NEW U, NEW posted, Change(F, T, H, U, posted),
         NEW p \in DOMAIN F, NEW m, NEW j, Under(T, Moved(F, H), m, p, j),
         NEW below, Lists(T, p, below), NEW up, Lists(U, H[m], up)
  PROVE  Lists(U, p, Joined(up, below, m))
  <1> DEFINE L == Len(below)
             E == Moved(F, H)
             tail == SubSeq(below, L - j, L)
             c == up \o tail
             S == Range(up) \cup Range(below)
  <1>1. /\ L \in Nat /\ below \in Seq(Range(below)) /\ Len(up) \in Nat /\ up \in Seq(Range(up))
        /\ \A a : \A n \in Nat : Row(a, p, n) \in T <=> n < L /\ a = below[L - n]
        /\ \A a : \A n \in Nat : Row(a, H[m], n) \in U <=> n < Len(up) /\ a = up[Len(up) - n]
    BY DEF Lists
  <1>2. j \in Nat /\ Row(m, p, j) \in T /\ m \in DOMAIN F /\ m \in E
    BY DEF Under, Moved
  <1>3. j < L /\ m = below[L - j]
    BY <1>1, <1>2
  <1>4. SelectInSeq(below, LAMBDA a : a = m) = L - j
    <2> DEFINE I == {i \in 1..L : below[i] = m}
    <2>1. L - j \in I
      BY <1>1, <1>2, <1>3
    <2>2. ASSUME NEW i \in I PROVE i = L - j
      <3>1. L - i \in Nat /\ L - i < L /\ L - (L - i) = i
        BY <1>1
      <3>2. Row(m, p, L - i) \in T
        BY <1>1, <3>1
      <3>3. L - i = j
        BY <1>2, <3>1, <3>2, OneDistance DEF Change
      <3> QED
        BY <1>1, <1>2, <3>3
    <2>3. I = {L - j}
      BY <2>1, <2>2
    <2>4. Min(I) = L - j
      <3>1. Min({L - j}) = L - j
        <4> DEFINE x == L - j
        <4>1. x \in Int /\ x <= x
          BY <1>1, <1>2
        <4> HIDE DEF x
        <4>2. Min({x}) = x
          BY <4>1 DEF Min
        <4> QED
          BY <4>2 DEF x
      <3> QED
        BY <2>3, <3>1
    <2>5. SelectInSeq(below, LAMBDA a : a = m) = IF I # {} THEN Min(I) ELSE 0
      BY DEF SelectInSeq
    <2> HIDE DEF I
    <2> QED
      BY <2>1, <2>4, <2>5
  <1>5. /\ tail \in Seq(S) /\ Len(tail) = j + 1
        /\ \A i \in 1..(j + 1) : tail[i] = below[(L - j) + i - 1]
    <2>1. L - j \in Int /\ L \in Int /\ L - j <= L /\ L - (L - j) + 1 = j + 1
      BY <1>1, <1>2
    <2>2. \A i \in (L - j)..L : below[i] \in S
      <3> SUFFICES ASSUME NEW i \in (L - j)..L PROVE below[i] \in Range(below)
        OBVIOUS
      <3>1. i \in 1..L /\ DOMAIN below = 1..L
        BY <1>1, <1>2, <1>3, LenProperties
      <3> QED
        BY <3>1 DEF Range
    <2> HIDE DEF S
    <2>3. /\ SubSeq(below, L - j, L) \in Seq(S)
          /\ Len(SubSeq(below, L - j, L)) = IF L - j <= L THEN L - (L - j) + 1 ELSE 0
          /\ \A i \in 1..(L - (L - j) + 1) :
               SubSeq(below, L - j, L)[i] = below[(L - j) + i - 1]
      BY <2>1, <2>2, SubSeqProperties
    <2> QED
      BY <2>1, <2>3
  <1>6. up \in Seq(S)
    <2>1. Range(up) \subseteq S
      OBVIOUS
    <2> HIDE DEF S
    <2> QED
      BY <1>1, <2>1, SeqMonotonic
  <1> HIDE DEF tail, S
  <1>7. /\ c \in Seq(S) /\ Len(c) = Len(up) + (j + 1)
        /\ \A i \in 1..(Len(up) + (j + 1)) :
             c[i] = IF i <= Len(up) THEN up[i] ELSE tail[i - Len(up)]
    BY <1>5, <1>6, ConcatProperties
  <1> HIDE DEF c
  <1>8. c \in Seq(Range(c))
    BY <1>7, SequenceOfItsRange
  <1> DEFINE C == Len(c)
  <1>9. ASSUME NEW a, NEW n \in Nat, n <= j
        PROVE  Row(a, p, n) \in U <=> n < C /\ a = c[C - n]
    <2>1. Row(a, p, n) \in U <=> Row(a, p, n) \in T
      <3>1. Faithful(T, F) /\ Faithful(U, H) /\ DOMAIN H = DOMAIN F /\ n \in 0..j
        BY <1>2, <1>9 DEF Change, Tree
      <3>2. \A i \in 0..j : Row(a, p, i) \in U <=> Row(a, p, i) \in T
        BY <3>1, MovedPaths
      <3> QED
        BY <3>1, <3>2
    <2>2. Row(a, p, n) \in T <=> a = below[L - n]
      BY <1>1, <1>2, <1>3, <1>9
    <2>3. n < C /\ C - n \in 1..(Len(up) + (j + 1)) /\ ~ (C - n <= Len(up))
      BY <1>1, <1>2, <1>7, <1>9
    <2>4. (C - n) - Len(up) = j + 1 - n /\ j + 1 - n \in 1..(j + 1)
      BY <1>1, <1>2, <1>7, <1>9
    <2>5. c[C - n] = tail[j + 1 - n]
      BY <1>7, <2>3, <2>4
    <2>6. tail[j + 1 - n] = below[(L - j) + (j + 1 - n) - 1]
      BY <1>5, <2>4
    <2>7. (L - j) + (j + 1 - n) - 1 = L - n
      BY <1>1, <1>2
    <2> QED
      BY <2>1, <2>2, <2>3, <2>5, <2>6, <2>7
  <1>10. ASSUME NEW a, NEW n \in Nat, ~ (n <= j)
         PROVE  Row(a, p, n) \in U <=> n < C /\ a = c[C - n]
    <2> DEFINE k == n - (j + 1)
    <2>1. k \in Nat /\ n = j + (k + 1) /\ k + 1 \in Nat
      BY <1>2, <1>10
    <2> HIDE DEF k
    <2>2. Row(a, p, j + (k + 1)) \in U <=> Row(a, m, k + 1) \in U
      BY <1>2, <2>1, MovedPaths DEF Change, Tree
    <2>3. Row(a, m, k + 1) \in U <=> Row(a, H[m], k) \in U
      BY <1>2, <2>1, OneUp DEF Change
    <2>4. Row(a, H[m], k) \in U <=> k < Len(up) /\ a = up[Len(up) - k]
      BY <1>1, <2>1
    <2>5. n < C <=> k < Len(up)
      BY <1>1, <1>2, <1>7, <2>1
    <2>6. ASSUME k < Len(up) PROVE c[C - n] = up[Len(up) - k]
      <3>1. /\ C - n = Len(up) - k /\ Len(up) - k \in 1..(Len(up) + (j + 1))
            /\ Len(up) - k <= Len(up)
        BY <1>1, <1>2, <1>7, <2>1, <2>6
      <3> QED
        BY <1>7, <3>1
    <2> QED
      BY <2>1, <2>2, <2>3, <2>4, <2>5, <2>6
  <1>11. Lists(U, p, c)
    <2>1. Len(c) \in Nat
      BY <1>1, <1>2, <1>7
    <2>2. \A a : \A n \in Nat : Row(a, p, n) \in U <=> n < C /\ a = c[C - n]
      BY <1>9, <1>10
    <2> QED
      BY <1>8, <2>1, <2>2 DEF Lists
  <1> QED
    BY <1>4, <1>11 DEF c, tail, Joined

\* _construct_edit_ancestors gives every moved tree the ancestors of its new
\* parent in the new hierarchy.
LEMMA NewAncestorsAre ==
  ASSUME NEW F, NEW T, NEW H, NEW U, NEW posted, Change(F, T, H, U, posted),
         Orders(Dependency(T, posted)) # {}, NEW g \in Moved(F, H)
  PROVE  Lists(U, H[g], NewAncestors(T, posted, Dependency(T, posted))[g])
  <1> DEFINE E == Moved(F, H)
             dep == Dependency(T, posted)
             new == NewAncestors(T, posted, dep)
             n == Cardinality(E)
  <1>1. /\ DOMAIN dep = E /\ IsFiniteSet(E) /\ Root \notin E /\ E \subseteq DOMAIN F
        /\ \A h \in E : posted[h] = H[h]
    BY MovedAre
  <1>2. \A h \in E : \/ dep[h] = Root /\ Still(T, E, H[h])
                     \/ dep[h] \in E /\ \E j \in Nat : Under(T, E, dep[h], H[h], j)
    BY DependencyMeans
  <1> HIDE DEF dep
  <1>3. \A h \in E : new[h] = NewOf(T, posted, dep, new, h)
    <2>1. \A h \in DOMAIN dep : dep[h] \in DOMAIN dep \cup {Root}
      BY <1>1, <1>2
    <2> QED
      BY <1>1, <2>1, NewAncestorsIs DEF dep
  <1>4. PICK s : s \in Orders(dep)
    BY DEF dep
  <1>5. /\ n \in Nat /\ s \in [1..n -> E]
        /\ \A h \in E : \E i \in 1..n : s[i] = h
        /\ \A i, k \in 1..n : dep[s[k]] = s[i] => i < k
    <2> DEFINE m == Cardinality(DOMAIN dep)
    <2>1. /\ m \in Nat /\ s \in [1..m -> DOMAIN dep]
          /\ \A h \in DOMAIN dep : \E i \in 1..m : s[i] = h
          /\ \A i, k \in 1..m : dep[s[k]] = s[i] => i < k
      BY <1>1, <1>4, OrderIs
    <2>2. m = n
      BY <1>1
    <2> HIDE DEF m, n
    <2> QED
      BY <1>1, <2>1, <2>2
  <1>6. PICK N \in Nat : Sound(F, T, N)
    BY DEF Change
  <1>7. Faithful(T, F) /\ Faithful(U, H) /\ DOMAIN H = DOMAIN F
    BY DEF Change, Tree
  <1> HIDE DEF n, new
  <1> DEFINE Fine(h) == Lists(U, H[h], new[h])
             K == {m \in 0..n : \A i \in 1..m : Fine(s[i])}
  <1>8. 0 \in K
    BY <1>5
  <1>9. ASSUME NEW m \in 1..n, m - 1 \in K PROVE m \in K
    <2> DEFINE h == s[m]
               below == Chain(T, H[h])
    <2>1. h \in E /\ h \in DOMAIN F /\ H[h] \in DOMAIN F \cup {Root}
      BY <1>1, <1>5, <1>7 DEF Faithful
    <2>2. Lists(T, H[h], below)
      BY <1>6, ChainIs
    <2>3. new[h] = IF dep[h] = Root THEN below ELSE Joined(new[dep[h]], below, dep[h])
      BY <1>1, <1>3, <2>1 DEF NewOf, Joined
    <2> HIDE DEF below, h
    <2>4. ASSUME dep[h] = Root PROVE Fine(h)
      <3>1. Still(T, E, H[h])
        BY <1>1, <1>2, <2>1, <2>4
      <3>2. \A a : \A i \in Nat : Row(a, H[h], i) \in U <=> Row(a, H[h], i) \in T
        <4>1. CASE H[h] \in DOMAIN F
          BY <1>7, <3>1, <4>1, StillPaths
        <4>2. CASE H[h] = Root
          BY <1>7, <4>2, InTable
        <4> QED
          BY <2>1, <4>1, <4>2
      <3>3. Lists(U, H[h], below)
        BY <2>2, <3>2 DEF Lists
      <3> QED
        BY <2>3, <2>4, <3>3
    <2>5. ASSUME dep[h] # Root PROVE Fine(h)
      <3> DEFINE d == dep[h]
      <3>1. d \in E
        BY <1>2, <2>1, <2>5
      <3>2. PICK j \in Nat : Under(T, E, d, H[h], j)
        BY <1>2, <2>1, <2>5
      <3>3. PICK i \in 1..n : s[i] = d
        BY <1>5, <3>1
      <3>4. i < m
        BY <1>5, <3>3 DEF h
      <3>5. Fine(d)
        BY <1>9, <3>3, <3>4
      <3>6. H[h] \in DOMAIN F
        BY <1>7, <3>2, InTable DEF Under
      <3> HIDE DEF d
      <3>7. Lists(U, H[h], Joined(new[d], below, d))
        BY <2>2, <3>2, <3>5, <3>6, AncestorsJoin
      <3> QED
        BY <2>3, <2>5, <3>7 DEF d
    <2>6. Fine(h)
      BY <2>4, <2>5
    <2>7. ASSUME NEW i \in 1..m PROVE Fine(s[i])
      <3>1. CASE i = m
        BY <2>6, <3>1 DEF h
      <3>2. CASE i # m
        <4>1. i \in 1..(m - 1)
          BY <3>2
        <4> QED
          BY <1>9, <4>1
      <3> QED
        BY <3>1, <3>2
    <2> QED
      BY <2>7
  <1>10. n \in K
    <2>1. \A m \in 1..n : m - 1 \in K => m \in K
      BY <1>9
    <2>2. n \in 0..n
      BY <1>5
    <2> HIDE DEF K
    <2> QED
      BY <1>5, <1>8, <2>1, <2>2, NatSetInduction
  <1>11. Fine(g)
    <2>1. PICK i \in 1..n : s[i] = g
      BY <1>5
    <2> QED
      BY <1>10, <2>1
  <1> QED
    BY <1>11 DEF new, dep

\* What _construct_edit_descendants leaves to a moved tree, unless the plan is
\* tangled: the groups that it is the nearest moved tree of, each with its
\* distance.
LEMMA NewDescendantsAre ==
  ASSUME NEW F, NEW T, NEW H, NEW U, NEW posted, Change(F, T, H, U, posted),
         ~ Tangled(EditPlan(T, posted)), NEW g \in Moved(F, H)
  PROVE  /\ \A r \in EditPlan(T, posted).desc[g] :
              r = Row(g, r.desc, r.depth) /\ Under(T, Moved(F, H), g, r.desc, r.depth)
         /\ \A d, j : Under(T, Moved(F, H), g, d, j) =>
              Row(g, d, j) \in EditPlan(T, posted).desc[g]
  <1> DEFINE E == Moved(F, H)
             dep == Dependency(T, posted)
             new == NewAncestors(T, posted, dep)
             desc == EditPlan(T, posted).desc
             brought == {w \in E : dep[w] = g}
             taken == {w \in Members(T, g) \cap (E \ {g}) : g \notin Range(new[w])}
  <1>1. /\ DOMAIN dep = E /\ Root \notin E /\ E \subseteq DOMAIN F
        /\ E \subseteq DOMAIN posted /\ \A h \in E : posted[h] = H[h]
    BY MovedAre
  <1>2. \A h \in E : \/ dep[h] = Root /\ Still(T, E, H[h])
                     \/ dep[h] # h /\ \E j \in Nat : Under(T, E, dep[h], H[h], j)
    BY DependencyMeans
  <1>3. Faithful(T, F) /\ Tree(T, F)
    BY DEF Change, Tree
  <1>4. \A r \in T : r = Row(r.anc, r.desc, r.depth) /\ r.depth \in Nat
    BY <1>3, RowOf DEF Faithful
  <1>5. \A w, d : d \in Members(T, w) <=> \E i \in Nat : Row(w, d, i) \in T
    BY <1>4, RowFields DEF Members, Subtree
  <1>6. desc[g] = {r \in Subtree(T, g) :
                     \A w \in brought \cup taken : r.desc \notin Members(T, w)}
    <2>1. desc = NewDescendants(T, dep, new)
      BY DEF EditPlan
    <2> QED
      BY <1>1, <2>1 DEF NewDescendants
  <1>7. DOMAIN desc = E
    BY <1>1 DEF EditPlan, NewDescendants
  <1> HIDE DEF dep, new
  <1>8. ASSUME NEW d, NEW j, Under(T, E, g, d, j)
        PROVE  Row(g, d, j) \in desc[g]
    <2>1. j \in Nat /\ Row(g, d, j) \in T /\ \A h \in E : \A i \in Nat : Row(h, d, i) \in T => j <= i
      BY <1>8 DEF Under
    <2>2. Row(g, d, j) \in Subtree(T, g) /\ Row(g, d, j).desc = d
      BY <2>1, RowFields DEF Subtree
    <2>3. ASSUME NEW w \in brought, d \in Members(T, w) PROVE FALSE
      <3>1. PICK i \in Nat : Row(w, d, i) \in T
        BY <1>5, <2>3
      <3>2. w \in E /\ dep[w] = g /\ j <= i
        BY <2>1, <3>1
      <3>3. Row(w, g, i - j) \in T /\ i - j \in Nat
        BY <1>3, <2>1, <3>1, <3>2, AboveOneLine
      <3>4. g # Root
        BY <1>1
      <3>5. PICK m \in Nat : Under(T, E, g, H[w], m)
        BY <1>2, <3>2, <3>4
      <3>6. Row(g, H[w], m) \in T
        BY <3>5 DEF Under
      <3>7. Row(w, H[w], (i - j) + m) \in T /\ (i - j) + m \in Nat
        BY <1>3, <3>3, <3>6, PathsCompose
      <3>8. \A n \in Nat : Row(w, H[w], n) \notin T
        BY <1>1, <3>2 DEF Change
      <3> QED
        BY <3>7, <3>8
    <2>4. ASSUME NEW w \in taken, d \in Members(T, w) PROVE FALSE
      <3>1. PICK i \in Nat : Row(w, d, i) \in T
        BY <1>5, <2>4
      <3>2. PICK l \in Nat : Row(g, w, l) \in T
        BY <1>5
      <3>3. w \in E /\ w # g /\ j <= i
        BY <2>1, <3>1
      <3>4. Row(g, d, l + i) \in T /\ l + i \in Nat
        BY <1>3, <3>1, <3>2, PathsCompose
      <3>5. j = l + i
        BY <1>3, <2>1, <3>4, OneDistance
      <3>6. l = 0
        BY <2>1, <3>3, <3>5
      <3>7. Row(g, w, 0) \in T
        BY <3>2, <3>6
      <3>8. g = w
        BY <1>1, <1>3, <3>3, <3>7 DEF Faithful
      <3> QED
        BY <3>3, <3>8
    <2> QED
      BY <1>6, <2>2, <2>3, <2>4
  <1>9. ASSUME NEW r \in desc[g]
        PROVE  r = Row(g, r.desc, r.depth) /\ Under(T, E, g, r.desc, r.depth)
    <2> DEFINE d == r.desc
               n == r.depth
    <2>1. r \in T /\ r.anc = g
      BY <1>6 DEF Subtree
    <2>2. r = Row(g, d, n) /\ n \in Nat
      BY <1>4, <2>1
    <2> HIDE DEF d, n
    <2>3. Row(g, d, n) \in T
      BY <2>1, <2>2
    <2>4. \A w \in brought \cup taken : d \notin Members(T, w)
      BY <1>6 DEF d
    <2>5. ASSUME NEW h \in E, NEW i \in Nat, Row(h, d, i) \in T, i < n PROVE FALSE
      <3>1. Row(g, h, n - i) \in T /\ n - i \in Nat /\ n - i # 0
        BY <1>3, <2>2, <2>3, <2>5, AboveOneLine
      <3>2. h # g
        BY <1>3, <3>1 DEF Tree
      <3>3. Row(g, h, n - i) \notin desc[g]
        <4> SUFFICES ASSUME Row(g, h, n - i) \in desc[g] PROVE FALSE
          OBVIOUS
        <4>1. Row(g, h, n - i).desc = h
          BY RowFields
        <4>2. Tangled(EditPlan(T, posted))
          BY <1>7, <3>2, <4>1 DEF Tangled
        <4> QED
          BY <4>2
      <3>4. Row(g, h, n - i) \in Subtree(T, g) /\ Row(g, h, n - i).desc = h
        BY <3>1, RowFields DEF Subtree
      <3>5. PICK w \in brought \cup taken : h \in Members(T, w)
        BY <1>6, <3>3, <3>4
      <3>6. PICK x \in Nat : Row(w, h, x) \in T
        BY <1>5, <3>5
      <3>7. Row(w, d, x + i) \in T /\ x + i \in Nat
        BY <1>3, <2>5, <3>6, PathsCompose
      <3> QED
        BY <1>5, <2>4, <3>7
    <2>6. \A h \in E : \A i \in Nat : Row(h, d, i) \in T => n <= i
      BY <2>2, <2>5
    <2>7. Under(T, E, g, d, n)
      BY <2>2, <2>3, <2>6 DEF Under
    <2> QED
      BY <2>2, <2>7 DEF d, n
  <1> QED
    BY <1>8, <1>9

-----------------------------------------------------------------------------
(* Listing a set                                                            *)

First(S) == CHOOSE x \in S : TRUE
Rest(S) == S \ {First(S)}

ListStages(S, rest) ==
  /\ rest[0] = S
  /\ \A n \in 1..Cardinality(S) : rest[n] = Rest(rest[n - 1])
  /\ Listed(S) = [i \in 1..Cardinality(S) |-> First(rest[i - 1])]

\* The members are taken one after the other.
LEMMA ListedByOne ==
  ASSUME NEW S, Cardinality(S) \in Nat
  PROVE  \E rest : ListStages(S, rest)
  <1> DEFINE N == Cardinality(S)
             Upto(f, m) == f = [n \in 0..m |-> IF n = 0 THEN S ELSE Rest(f[n - 1])]
             K == {m \in 0..N : \E f : Upto(f, m)}
  <1>1. 0 \in K
    <2> DEFINE f == [i \in 0..0 |-> S]
    <2>1. Upto(f, 0)
      OBVIOUS
    <2> HIDE DEF f, Upto
    <2> QED
      BY <2>1
  <1>2. ASSUME NEW n \in 1..N, n - 1 \in K PROVE n \in K
    <2>1. PICK f : Upto(f, n - 1)
      BY <1>2
    <2> DEFINE h == [i \in 0..n |-> IF i = n THEN Rest(f[n - 1]) ELSE f[i]]
    <2>2. h[0] = S
      BY <2>1
    <2>3. ASSUME NEW i \in 1..n PROVE h[i] = Rest(h[i - 1])
      <3>1. h[i - 1] = f[i - 1]
        OBVIOUS
      <3>2. i # n => f[i] = Rest(f[i - 1])
        BY <2>1
      <3> QED
        BY <3>1, <3>2
    <2>4. Upto(h, n)
      <3> DEFINE k == [i \in 0..n |-> IF i = 0 THEN S ELSE Rest(h[i - 1])]
      <3>1. \A i \in 0..n : h[i] = k[i]
        <4> SUFFICES ASSUME NEW i \in 0..n PROVE h[i] = k[i]
          OBVIOUS
        <4>1. CASE i = 0
          BY <4>1, <2>2
        <4>2. CASE i # 0
          <5>1. i \in 1..n
            BY <4>2
          <5> HIDE DEF h
          <5> QED
            BY <4>2, <5>1, <2>3
        <4> QED
          BY <4>1, <4>2
      <3>2. DOMAIN h = 0..n /\ h = [i \in DOMAIN h |-> h[i]]
        OBVIOUS
      <3>3. DOMAIN k = 0..n /\ k = [i \in DOMAIN k |-> k[i]]
        OBVIOUS
      <3>4. h = k
        <4> HIDE DEF h, k
        <4> QED
          BY <3>1, <3>2, <3>3
      <3> QED
        BY <3>4
    <2> HIDE DEF h, Upto
    <2> QED
      BY <2>4
  <1> HIDE DEF K
  <1>3. 0..N \subseteq K
    <2>1. N \in Nat /\ \A n \in 1..N : n - 1 \in K => n \in K
      BY <1>2
    <2> HIDE DEF N
    <2> QED
      BY <1>1, <2>1, NatSetInduction
  <1>4. \E f : Upto(f, N)
    <2>1. N \in K
      BY <1>3
    <2> HIDE DEF Upto
    <2> QED
      BY <2>1 DEF K
  <1> DEFINE rest == CHOOSE f : Upto(f, N)
  <1>5. Upto(rest, N)
    BY <1>4
  <1>6. Listed(S) = [i \in 1..N |-> First(rest[i - 1])]
    BY DEF Listed, First, Rest
  <1> HIDE DEF rest
  <1>7. rest[0] = S /\ \A n \in 1..N : rest[n] = Rest(rest[n - 1])
    BY <1>5
  <1> QED
    BY <1>6, <1>7 DEF ListStages

\* A finite set is listed with each member at one place.
LEMMA ListedIs ==
  ASSUME NEW S, IsFiniteSet(S)
  PROVE  LET n == Cardinality(S)
         IN  /\ n \in Nat /\ Listed(S) \in [1..n -> S]
             /\ Listed(S) \in Seq(S) /\ Len(Listed(S)) = n
             /\ \A i, j \in 1..n : Listed(S)[i] = Listed(S)[j] => i = j
             /\ \A x \in S : \E i \in 1..n : Listed(S)[i] = x
  <1> DEFINE n == Cardinality(S)
             L == Listed(S)
  <1>1. n \in Nat
    BY FS_CardinalityType
  <1>2. PICK rest : ListStages(S, rest)
    BY <1>1, ListedByOne
  <1>3. /\ rest[0] = S /\ \A m \in 1..n : rest[m] = Rest(rest[m - 1])
        /\ DOMAIN L = 1..n /\ L = [i \in 1..n |-> L[i]]
        /\ \A i \in 1..n : L[i] = First(rest[i - 1])
    BY <1>2 DEF ListStages
  <1> HIDE DEF L, n
  <1> DEFINE P(m) == /\ IsFiniteSet(rest[m]) /\ rest[m] \subseteq S
                     /\ Cardinality(rest[m]) = n - m
             K == {m \in 0..n : P(m)}
  <1>4. 0 \in K
    BY <1>1, <1>3 DEF n
  <1>5. ASSUME NEW m \in 0..(n - 1), P(m) PROVE First(rest[m]) \in rest[m]
    <2>1. Cardinality(rest[m]) # 0
      BY <1>1, <1>5
    <2>2. rest[m] # {}
      BY <2>1, FS_EmptySet
    <2> QED
      BY <2>2 DEF First
  <1>6. ASSUME NEW m \in 1..n, m - 1 \in K PROVE m \in K
    <2> DEFINE R == rest[m - 1]
    <2>1. /\ IsFiniteSet(R) /\ R \subseteq S /\ Cardinality(R) = n - (m - 1)
          /\ rest[m] = R \ {First(R)}
      BY <1>3, <1>6 DEF Rest
    <2>2. First(R) \in R
      <3>1. m - 1 \in 0..(n - 1) /\ P(m - 1)
        BY <1>1, <1>6
      <3> QED
        BY <1>5, <3>1
    <2> HIDE DEF R
    <2>3. IsFiniteSet(rest[m]) /\ Cardinality(rest[m]) = Cardinality(R) - 1
      BY <2>1, <2>2, FS_RemoveElement
    <2>4. n - (m - 1) - 1 = n - m
      BY <1>1
    <2> QED
      BY <1>1, <2>1, <2>3, <2>4
  <1>7. \A m \in 0..n : P(m)
    <2>1. \A m \in 1..n : m - 1 \in K => m \in K
      BY <1>6
    <2> HIDE DEF K, P
    <2>2. 0..n \subseteq K
      BY <1>1, <1>4, <2>1, NatSetInduction
    <2> QED
      BY <2>2 DEF K
  <1>8. \A i \in 1..n : L[i] \in rest[i - 1] /\ L[i] \in S /\ rest[i] = rest[i - 1] \ {L[i]}
    <2> SUFFICES ASSUME NEW i \in 1..n
                 PROVE  L[i] \in rest[i - 1] /\ L[i] \in S /\ rest[i] = rest[i - 1] \ {L[i]}
      OBVIOUS
    <2>1. i - 1 \in 0..(n - 1) /\ i - 1 \in 0..n
      BY <1>1
    <2>2. P(i - 1)
      BY <1>7, <2>1
    <2>3. L[i] \in rest[i - 1]
      BY <1>3, <1>5, <2>1, <2>2
    <2> QED
      BY <1>3, <2>2, <2>3 DEF Rest
  <1>9. L \in [1..n -> S]
    BY <1>3, <1>8
  \* What was taken does not come back.
  <1>10. ASSUME NEW i \in 1..n, NEW j \in 1..n, i < j PROVE L[i] # L[j]
    <2> DEFINE J == {m \in 0..(n - i) : L[i] \notin rest[i + m]}
    <2>1. 0 \in J
      <3>1. n - i \in Nat /\ i + 0 = i
        BY <1>1
      <3> QED
        BY <1>8, <3>1
    <2>2. ASSUME NEW m \in 1..(n - i), m - 1 \in J PROVE m \in J
      <3>1. i + m \in 1..n /\ (i + m) - 1 = i + (m - 1)
        BY <1>1
      <3> QED
        BY <1>8, <2>2, <3>1
    <2>3. 0..(n - i) \subseteq J
      <3>1. n - i \in Nat /\ \A m \in 1..(n - i) : m - 1 \in J => m \in J
        BY <1>1, <2>2
      <3> DEFINE k == n - i
      <3>2. k \in Nat /\ \A m \in 1..k : m - 1 \in J => m \in J
        BY <3>1
      <3> HIDE DEF J, k
      <3>3. 0..k \subseteq J
        BY <2>1, <3>2, NatSetInduction
      <3> QED
        BY <3>3 DEF k
    <2>4. j - 1 - i \in 0..(n - i) /\ i + (j - 1 - i) = j - 1
      BY <1>1, <1>10
    <2>5. L[i] \notin rest[j - 1]
      BY <2>3, <2>4
    <2> QED
      BY <1>8, <2>5
  <1>11. \A i, j \in 1..n : L[i] = L[j] => i = j
    <2> SUFFICES ASSUME NEW i \in 1..n, NEW j \in 1..n, L[i] = L[j] PROVE i = j
      OBVIOUS
    <2>1. ~ (i < j) /\ ~ (j < i)
      BY <1>10
    <2> QED
      BY <2>1
  <1>12. \A x \in S : \E i \in 1..n : L[i] = x
    <2>1. L \in Injection(1..n, S)
      BY <1>9, <1>11 DEF Injection, IsInjective
    <2>2. Cardinality(1..n) = n
      <3>1. 1 \in Int /\ n \in Int
        BY <1>1
      <3>2. Cardinality(1..n) = IF 1 > n THEN 0 ELSE n - 1 + 1
        BY <3>1, FS_Interval
      <3> QED
        BY <1>1, <3>2
    <2>3. L \in Surjection(1..n, S)
      BY <2>1, <2>2, FS_Injection DEF n
    <2> QED
      BY <2>3 DEF Surjection
  <1>13. L \in Seq(S) /\ Len(L) = n
    <2>1. L \in Seq(S)
      BY <1>1, <1>9
    <2>2. Len(L) \in Nat /\ 1..Len(L) = 1..n
      BY <1>3, <2>1, LenProperties
    <2> QED
      BY <1>1, <2>1, <2>2
  <1> QED
    BY <1>1, <1>9, <1>11, <1>12, <1>13 DEF L, n

-----------------------------------------------------------------------------
(* One tree is written                                                      *)

\* s lists n different keys of K.
Keys(s, n, K) ==
  /\ n \in Nat /\ s \in Seq(K) /\ Len(s) = n
  /\ \A i \in 1..n : s[i] \in K
  /\ \A i, j \in 1..n : s[i] = s[j] => i = j

\* Where the i-th path of tree g goes.
SlotOf(targets, old, doomed, g, i) ==
  IF i <= Len(old) THEN old[i]
  ELSE IF i - Len(old) <= Len(doomed) THEN doomed[i - Len(old)]
  ELSE <<targets[i], g>>

Popped(nt, no, nd) == Max({0, Min({nt - no, nd})})

\* The paths of a tree go over different rows: over the old ones, over the
\* first of the doomed ones, and into new ones.
SlotsFit(K, old, no, doomed, nd, targets, nt, g) ==
  LET slot(i) == SlotOf(targets, old, doomed, g, i)
      p == Popped(nt, no, nd)
  IN  /\ p \in 0..nd
      /\ \A i, j \in 1..nt : slot(i) = slot(j) => i = j
      /\ \A i \in 1..nt, j \in (p + 1)..nd : slot(i) # doomed[j]
      /\ \A i \in 1..nt, j \in (nt + 1)..no : slot(i) # old[j]
      /\ \A j \in 1..p : \E i \in 1..nt : slot(i) = doomed[j]
      /\ \A j \in 1..no : j <= nt => slot(j) = old[j]
      /\ \A i \in 1..nt : \/ slot(i) \notin K
                          \/ \E j \in 1..no : slot(i) = old[j]
                          \/ \E j \in 1..nd : slot(i) = doomed[j]

\* The smaller and the larger of two numbers.
LEMMA MinMaxOfTwo ==
  ASSUME NEW a \in Int, NEW b \in Int
  PROVE  /\ Min({a, b}) = IF a <= b THEN a ELSE b
         /\ Max({a, b}) = IF a <= b THEN b ELSE a
  <1>1. \A x \in {a, b} : (\A y \in {a, b} : x =< y) => x = IF a <= b THEN a ELSE b
    OBVIOUS
  <1>2. \E x \in {a, b} : \A y \in {a, b} : x =< y
    OBVIOUS
  <1>3. \A x \in {a, b} : (\A y \in {a, b} : x >= y) => x = IF a <= b THEN b ELSE a
    OBVIOUS
  <1>4. \E x \in {a, b} : \A y \in {a, b} : x >= y
    OBVIOUS
  <1> QED
    BY <1>1, <1>2, <1>3, <1>4, Zenon DEF Min, Max

\* How many doomed rows are written over.
LEMMA PoppedIs ==
  ASSUME NEW nt \in Nat, NEW no \in Nat, NEW nd \in Nat
  PROVE  Popped(nt, no, nd) = IF nt <= no THEN 0 ELSE IF nt - no <= nd THEN nt - no ELSE nd
  <1> DEFINE m == Min({nt - no, nd})
  <1>1. m \in Int /\ m = IF nt - no <= nd THEN nt - no ELSE nd
    <2>1. nt - no \in Int /\ nd \in Int
      OBVIOUS
    <2> QED
      BY <2>1, MinMaxOfTwo
  <1> HIDE DEF m
  <1>2. Max({0, m}) = IF 0 <= m THEN m ELSE 0
    <2>1. 0 \in Int /\ m \in Int
      BY <1>1
    <2> QED
      BY <2>1, MinMaxOfTwo
  <1> QED
    BY <1>1, <1>2 DEF Popped, m

\* The i-th path has a slot of its own.
LEMMA SlotsAre ==
  ASSUME NEW K, NEW old, NEW no, Keys(old, no, K), NEW doomed, NEW nd, Keys(doomed, nd, K),
         \A i \in 1..no, j \in 1..nd : old[i] # doomed[j],
         NEW targets, NEW nt \in Nat, \A i, j \in 1..nt : targets[i] = targets[j] => i = j,
         NEW g, \A x : <<x, g>> \notin K
  PROVE  SlotsFit(K, old, no, doomed, nd, targets, nt, g)
  <1> DEFINE slot(i) == SlotOf(targets, old, doomed, g, i)
             p == Popped(nt, no, nd)
  <1>1. /\ no \in Nat /\ nd \in Nat /\ Len(old) = no /\ Len(doomed) = nd
        /\ \A i \in 1..no : old[i] \in K
        /\ \A i, j \in 1..no : old[i] = old[j] => i = j
        /\ \A i \in 1..nd : doomed[i] \in K
        /\ \A i, j \in 1..nd : doomed[i] = doomed[j] => i = j
    BY DEF Keys
  <1>2. p = IF nt <= no THEN 0 ELSE IF nt - no <= nd THEN nt - no ELSE nd
    BY <1>1, PoppedIs
  <1>3. p \in 0..nd
    BY <1>1, <1>2
  <1>4. \A i \in 1..nt : i <= no => i \in 1..no /\ slot(i) = old[i]
    BY <1>1 DEF SlotOf
  <1>5. \A i \in 1..nt : ~ (i <= no) /\ i - no <= nd =>
                           i - no \in 1..nd /\ i - no <= p /\ slot(i) = doomed[i - no]
    BY <1>1, <1>2 DEF SlotOf
  <1>6. \A i \in 1..nt : ~ (i <= no) /\ ~ (i - no <= nd) => slot(i) = <<targets[i], g>>
    BY <1>1 DEF SlotOf
  <1> HIDE DEF slot, p
  <1>7. \A i \in 1..nt : ~ (i <= no) /\ ~ (i - no <= nd) => slot(i) \notin K
    BY <1>6
  <1>8. ASSUME NEW i \in 1..nt, NEW j \in 1..nt, slot(i) = slot(j) PROVE i = j
    <2>1. CASE i <= no
      <3>1. slot(i) = old[i] /\ i \in 1..no /\ slot(i) \in K
        BY <1>1, <1>4, <2>1
      <3>2. CASE j <= no
        <4>1. slot(j) = old[j] /\ j \in 1..no
          BY <1>4, <3>2
        <4>2. old[i] = old[j]
          BY <1>8, <3>1, <4>1
        <4> QED
          BY <1>1, <3>1, <4>1, <4>2
      <3>3. CASE ~ (j <= no) /\ j - no <= nd
        <4>1. slot(j) = doomed[j - no] /\ j - no \in 1..nd
          BY <1>5, <3>3
        <4>2. old[i] = doomed[j - no]
          BY <1>8, <3>1, <4>1
        <4> QED
          BY <3>1, <4>1, <4>2
      <3>4. CASE ~ (j <= no) /\ ~ (j - no <= nd)
        BY <1>7, <1>8, <3>1, <3>4
      <3> QED
        BY <3>2, <3>3, <3>4
    <2>2. CASE ~ (i <= no) /\ i - no <= nd
      <3>1. slot(i) = doomed[i - no] /\ i - no \in 1..nd /\ slot(i) \in K
        BY <1>1, <1>5, <2>2
      <3>2. CASE j <= no
        <4>1. slot(j) = old[j] /\ j \in 1..no
          BY <1>4, <3>2
        <4>2. old[j] = doomed[i - no]
          BY <1>8, <3>1, <4>1
        <4> QED
          BY <3>1, <4>1, <4>2
      <3>3. CASE ~ (j <= no) /\ j - no <= nd
        <4>1. slot(j) = doomed[j - no] /\ j - no \in 1..nd
          BY <1>5, <3>3
        <4>2. doomed[i - no] = doomed[j - no]
          BY <1>8, <3>1, <4>1
        <4>3. i - no = j - no
          BY <1>1, <3>1, <4>1, <4>2
        <4> QED
          BY <1>1, <4>3
      <3>4. CASE ~ (j <= no) /\ ~ (j - no <= nd)
        BY <1>7, <1>8, <3>1, <3>4
      <3> QED
        BY <3>2, <3>3, <3>4
    <2>3. CASE ~ (i <= no) /\ ~ (i - no <= nd)
      <3>1. slot(i) = <<targets[i], g>> /\ slot(i) \notin K
        BY <1>6, <1>7, <2>3
      <3>2. CASE j <= no
        <4>1. slot(j) = old[j] /\ old[j] \in K
          BY <1>1, <1>4, <3>2
        <4> QED
          BY <1>8, <3>1, <4>1
      <3>3. CASE ~ (j <= no) /\ j - no <= nd
        <4>1. slot(j) = doomed[j - no] /\ doomed[j - no] \in K
          BY <1>1, <1>5, <3>3
        <4> QED
          BY <1>8, <3>1, <4>1
      <3>4. CASE ~ (j <= no) /\ ~ (j - no <= nd)
        <4>1. slot(j) = <<targets[j], g>>
          BY <1>6, <3>4
        <4>2. <<targets[i], g>> = <<targets[j], g>>
          BY <1>8, <3>1, <4>1
        <4>3. targets[i] = targets[j]
          BY <4>2
        <4> QED
          BY <4>3
      <3> QED
        BY <3>2, <3>3, <3>4
    <2> QED
      BY <2>1, <2>2, <2>3
  <1>9. ASSUME NEW i \in 1..nt, NEW j \in (p + 1)..nd PROVE slot(i) # doomed[j]
    <2>1. j \in 1..nd /\ doomed[j] \in K /\ ~ (j <= p)
      BY <1>1, <1>3
    <2>2. CASE i <= no
      BY <1>4, <2>1, <2>2
    <2>3. CASE ~ (i <= no) /\ i - no <= nd
      BY <1>1, <1>5, <2>1, <2>3
    <2>4. CASE ~ (i <= no) /\ ~ (i - no <= nd)
      BY <1>7, <2>1, <2>4
    <2> QED
      BY <2>2, <2>3, <2>4
  <1>10. ASSUME NEW i \in 1..nt, NEW j \in (nt + 1)..no PROVE slot(i) # old[j]
    <2>1. j \in 1..no /\ i # j /\ i <= no
      BY <1>1
    <2> QED
      BY <1>1, <1>4, <2>1
  <1>11. ASSUME NEW j \in 1..p PROVE \E i \in 1..nt : slot(i) = doomed[j]
    <2>1. ~ (nt <= no) /\ no + j \in 1..nt /\ ~ (no + j <= no) /\ (no + j) - no = j /\ j <= nd
      BY <1>1, <1>2, <1>3
    <2>2. slot(no + j) = doomed[j]
      BY <1>5, <2>1
    <2> QED
      BY <2>1, <2>2
  <1>12. ASSUME NEW j \in 1..no, j <= nt PROVE slot(j) = old[j]
    BY <1>1, <1>4, <1>12
  <1>13. ASSUME NEW i \in 1..nt
         PROVE  \/ slot(i) \notin K
                \/ \E j \in 1..no : slot(i) = old[j]
                \/ \E j \in 1..nd : slot(i) = doomed[j]
    BY <1>4, <1>5, <1>7
  <1> QED
    BY <1>3, <1>8, <1>9, <1>10, <1>11, <1>12, <1>13 DEF slot, p, SlotsFit

-----------------------------------------------------------------------------
(* What an update writes: below each moved tree the new paths, in the slots *)
(* of the old ones as far as there are any.                                 *)

\* What ConstructEditPaths writes for tree g, below what, and over which rows.
TargetsOf(plan, g) ==
  {Row(plan.new[g][i], r.desc, Len(plan.new[g]) - i + 1 + r.depth) :
     i \in DOMAIN plan.new[g], r \in plan.desc[g]}

DownOf(plan, g) == {r.desc : r \in plan.desc[g]}

OldKeys(tx, plan, g) ==
  {k \in DOMAIN tx.rows : tx.rows[k].anc \in plan.old[g] /\ tx.rows[k].desc \in DownOf(plan, g)}

\* The rows that are not to be deleted.
Live(tx) == DOMAIN tx.rows \ Range(tx.doomed)

\* The keys that are to be deleted are different ones.
KeysFit(tx) ==
  /\ IsFiniteSet(DOMAIN tx.rows)
  /\ Keys(tx.doomed, Len(tx.doomed), DOMAIN tx.rows)

\* Nothing that is to be deleted is among the old rows of g, no row has been
\* made for g, and either all the old rows are written over or the rest is doomed.
MayWrite(tx, plan, g) ==
  /\ KeysFit(tx)
  /\ IsFiniteSet(TargetsOf(plan, g))
  /\ \A k \in OldKeys(tx, plan, g) : k \notin Range(tx.doomed)
  /\ \A x : <<x, g>> \notin DOMAIN tx.rows
  /\ \/ Cardinality(plan.old[g]) > Len(plan.new[g])
     \/ Cardinality(OldKeys(tx, plan, g)) <= Cardinality(TargetsOf(plan, g))

\* tx2 is tx with the paths of g in place of the old ones.
Written(tx, tx2, plan, g) ==
  LET kept == Live(tx) \ OldKeys(tx, plan, g)
  IN  /\ KeysFit(tx2)
      /\ \A k \in kept : k \in Live(tx2) /\ tx2.rows[k] = tx.rows[k]
      /\ \A k \in Live(tx2) \ kept : tx2.rows[k] \in TargetsOf(plan, g)
      /\ \A k, l \in Live(tx2) \ kept : tx2.rows[k] = tx2.rows[l] => k = l
      /\ \A r \in TargetsOf(plan, g) : \E k \in Live(tx2) \ kept : tx2.rows[k] = r
      /\ \A k \in DOMAIN tx2.rows : k \in DOMAIN tx.rows \/ \E x : k = <<x, g>>
      /\ \A k \in Range(tx2.doomed) :
           /\ k \in DOMAIN tx.rows /\ tx2.rows[k] = tx.rows[k]
           /\ k \in Range(tx.doomed) \/ k \in OldKeys(tx, plan, g)

\* One tree's paths take the place of its old ones.
LEMMA PathsWritten ==
  ASSUME NEW tx, NEW plan, NEW g, MayWrite(tx, plan, g)
  PROVE  Written(tx, ConstructEditPaths(tx, plan, g), plan, g)
  <1> DEFINE K == DOMAIN tx.rows
             R == tx.rows
             doomed == tx.doomed
             N == TargetsOf(plan, g)
             O == OldKeys(tx, plan, g)
             targets == Listed(N)
             old == Listed(O)
             nt == Cardinality(N)
             no == Cardinality(O)
             nd == Len(doomed)
             slot(i) == SlotOf(targets, old, doomed, g, i)
             slots == [i \in 1..nt |-> slot(i)]
             writes(k) == {i \in 1..nt : slots[i] = k}
             p == Popped(nt, no, nd)
             left == Cardinality(plan.old[g]) > Len(plan.new[g])
             drop == IF left THEN SubSeq(old, nt + 1, no) ELSE <<>>
             tx2 == ConstructEditPaths(tx, plan, g)
  <1>1. /\ IsFiniteSet(K) /\ Keys(doomed, nd, K) /\ nd \in Nat /\ IsFiniteSet(N)
        /\ \A k \in O : k \notin Range(doomed)
        /\ \A x : <<x, g>> \notin K
        /\ left \/ no <= nt
    BY DEF MayWrite, KeysFit, Keys
  <1>2. /\ nt \in Nat /\ DOMAIN targets = 1..nt /\ Len(targets) = nt
        /\ \A i \in 1..nt : targets[i] \in N
        /\ \A i, j \in 1..nt : targets[i] = targets[j] => i = j
        /\ \A x \in N : \E i \in 1..nt : targets[i] = x
    <2> HIDE DEF N
    <2>1. /\ targets \in [1..nt -> N] /\ nt \in Nat /\ Len(targets) = nt
          /\ \A i, j \in 1..nt : targets[i] = targets[j] => i = j
          /\ \A x \in N : \E i \in 1..nt : targets[i] = x
      BY <1>1, ListedIs
    <2> HIDE DEF targets, nt
    <2> QED
      BY <2>1
  <1>3. /\ IsFiniteSet(O) /\ O \subseteq K
        /\ no \in Nat /\ Keys(old, no, K) /\ Len(old) = no /\ DOMAIN old = 1..no
        /\ \A i \in 1..no : old[i] \in O
        /\ \A x \in O : \E i \in 1..no : old[i] = x
    <2>1. O \subseteq K
      BY DEF OldKeys
    <2> HIDE DEF O, K
    <2>2. IsFiniteSet(O)
      BY <1>1, <2>1, FS_Subset
    <2>3. /\ old \in [1..no -> O] /\ no \in Nat /\ old \in Seq(O) /\ Len(old) = no
          /\ \A i, j \in 1..no : old[i] = old[j] => i = j
          /\ \A x \in O : \E i \in 1..no : old[i] = x
      BY <2>2, ListedIs
    <2> HIDE DEF old, no
    <2>4. old \in Seq(K)
      BY <2>1, <2>3, SeqMonotonic
    <2> QED
      BY <2>1, <2>2, <2>3, <2>4 DEF Keys
  <1>4. /\ tx2.rows = [k \in K \cup Range(slots) |->
                         IF writes(k) = {} THEN R[k] ELSE targets[Max(writes(k))]]
        /\ tx2.doomed = SubSeq(doomed, p + 1, nd) \o drop
    <2> DEFINE sl == [i \in DOMAIN targets |->
                        IF i <= Len(old) THEN old[i]
                        ELSE IF i - Len(old) <= Len(doomed) THEN doomed[i - Len(old)]
                        ELSE <<targets[i], g>>]
               wr(k) == {i \in DOMAIN sl : sl[i] = k}
               po == Max({0, Min({Len(targets) - Len(old), Len(doomed)})})
    <2>1. tx2 = [rows |-> [k \in K \cup Range(sl) |->
                             IF wr(k) = {} THEN R[k] ELSE targets[Max(wr(k))]],
                 doomed |-> SubSeq(doomed, po + 1, Len(doomed)) \o
                            (IF left THEN SubSeq(old, Len(targets) + 1, Len(old)) ELSE <<>>)]
      BY DEF ConstructEditPaths, TargetsOf, OldKeys, DownOf
    <2>2. sl = slots
      BY <1>2 DEF SlotOf
    <2>3. po = p
      BY <1>2, <1>3 DEF Popped
    <2>4. \A k : wr(k) = writes(k)
      BY <2>2
    <2> HIDE DEF sl, po, wr, writes, slots, p, tx2, K, R, old, targets, no, nt, nd
    <2>5. tx2.rows = [k \in K \cup Range(sl) |->
                             IF wr(k) = {} THEN R[k] ELSE targets[Max(wr(k))]]
      BY <2>1
    <2>6. tx2.doomed = SubSeq(doomed, po + 1, Len(doomed)) \o
                            (IF left THEN SubSeq(old, Len(targets) + 1, Len(old)) ELSE <<>>)
      BY <2>1
    <2> QED
      BY <2>2, <2>3, <2>4, <2>5, <2>6, <1>2, <1>3 DEF nd
  <1>5. /\ p \in 0..nd
        /\ \A i, j \in 1..nt : slot(i) = slot(j) => i = j
        /\ \A i \in 1..nt, j \in (p + 1)..nd : slot(i) # doomed[j]
        /\ \A i \in 1..nt, j \in (nt + 1)..no : slot(i) # old[j]
        /\ \A j \in 1..p : \E i \in 1..nt : slot(i) = doomed[j]
        /\ \A j \in 1..no : j <= nt => slot(j) = old[j]
        /\ \A i \in 1..nt : \/ slot(i) \notin K
                            \/ \E j \in 1..no : slot(i) = old[j]
                            \/ \E j \in 1..nd : slot(i) = doomed[j]
    <2>1. \A i \in 1..no, j \in 1..nd : old[i] # doomed[j]
      <3>1. DOMAIN doomed = 1..nd
        BY <1>1 DEF Keys
      <3> HIDE DEF O, old, doomed, nd, no
      <3> QED
        BY <1>1, <1>3, <3>1 DEF Range
    <2>2. /\ Keys(old, no, K) /\ Keys(doomed, nd, K) /\ nt \in Nat
          /\ \A i, j \in 1..nt : targets[i] = targets[j] => i = j
          /\ \A x : <<x, g>> \notin K
      BY <1>1, <1>2, <1>3
    <2> HIDE DEF K, O, N, targets, old, doomed, nt, no, nd
    <2>3. SlotsFit(K, old, no, doomed, nd, targets, nt, g)
      BY <2>1, <2>2, SlotsAre
    <2> QED
      BY <2>3 DEF SlotsFit
  <1>6. /\ DOMAIN doomed = 1..nd /\ doomed \in Seq(K)
        /\ \A i \in 1..nd : doomed[i] \in K /\ doomed[i] \in Range(doomed)
        /\ \A k \in Range(doomed) : \E i \in 1..nd : doomed[i] = k
        /\ \A i, j \in 1..nd : doomed[i] = doomed[j] => i = j
    BY <1>1 DEF Keys, Range
  <1>7. \A i \in 1..nt : slots[i] = slot(i)
    OBVIOUS
  <1>8. \A k \in Range(slots) : \E i \in 1..nt : slot(i) = k
    BY DEF Range
  <1>9. \A i \in 1..nt : slot(i) \in Range(slots)
    BY DEF Range
  <1> HIDE DEF K, R, O, N, doomed, targets, old, nt, no, nd, slot, slots, p, tx2, drop, left
  <1>10. DOMAIN tx2.rows = K \cup Range(slots)
    BY <1>4
  \* What is written where.
  <1>11. ASSUME NEW i \in 1..nt PROVE tx2.rows[slot(i)] = targets[i]
    <2>1. writes(slot(i)) = {i}
      BY <1>5, <1>7
    <2>2. Max({i}) = i
      <3>1. i \in Int /\ i >= i
        OBVIOUS
      <3> QED
        BY <3>1, Zenon DEF Max
    <2> HIDE DEF writes
    <2>3. tx2.rows[slot(i)] =
            IF writes(slot(i)) = {} THEN R[slot(i)] ELSE targets[Max(writes(slot(i)))]
      BY <1>4, <1>9
    <2> QED
      BY <2>1, <2>2, <2>3
  <1>12. ASSUME NEW k \in K, \A i \in 1..nt : slot(i) # k PROVE tx2.rows[k] = R[k]
    <2>1. writes(k) = {}
      BY <1>7, <1>12
    <2> HIDE DEF writes
    <2> QED
      BY <1>4, <2>1
  \* What is to be deleted afterwards.
  <1> DEFINE keep == SubSeq(doomed, p + 1, nd)
             nk == nd - p
             nl == IF left /\ nt < no THEN no - nt ELSE 0
  <1>13. /\ keep \in Seq(K) /\ Len(keep) = nk /\ nk \in Nat
         /\ \A j \in 1..nk : keep[j] = doomed[p + j]
    <2>1. p + 1 \in Int /\ nd \in Int /\ nd - (p + 1) + 1 = nk /\ nk \in Nat
      BY <1>1, <1>5
    <2>2. \A j \in (p + 1)..nd : doomed[j] \in K
      BY <1>1, <1>5, <1>6
    <2>3. /\ keep \in Seq(K) /\ Len(keep) = IF p + 1 <= nd THEN nd - (p + 1) + 1 ELSE 0
          /\ \A j \in 1..(nd - (p + 1) + 1) : keep[j] = doomed[(p + 1) + j - 1]
      BY <2>1, <2>2, SubSeqProperties
    <2> HIDE DEF keep, nk
    <2>4. Len(keep) = nk
      BY <1>1, <1>5, <2>1, <2>3
    <2>5. ASSUME NEW j \in 1..nk PROVE keep[j] = doomed[p + j]
      <3>1. j \in 1..(nd - (p + 1) + 1) /\ (p + 1) + j - 1 = p + j
        BY <1>1, <1>5, <2>1
      <3> QED
        BY <2>3, <3>1
    <2> QED
      BY <2>1, <2>3, <2>4, <2>5
  <1>14. /\ drop \in Seq(K) /\ Len(drop) = nl /\ nl \in Nat
         /\ \A j \in 1..nl : drop[j] = old[nt + j]
         /\ nt < no => nl = no - nt
    <2>1. nl \in Nat /\ (nt < no => left)
      BY <1>1, <1>2, <1>3
    <2>2. ASSUME ~ left
          PROVE  /\ drop \in Seq(K) /\ Len(drop) = nl /\ nl \in Nat
                 /\ \A j \in 1..nl : drop[j] = old[nt + j]
                 /\ nt < no => nl = no - nt
      <3>1. drop = <<>>
        BY <2>2 DEF drop
      <3>2. nl = 0
        BY <2>2
      <3>3. Len(<<>>) = 0 /\ <<>> \in Seq(K)
        OBVIOUS
      <3> HIDE DEF nl
      <3>4. drop \in Seq(K) /\ Len(drop) = nl
        BY <3>1, <3>2, <3>3
      <3>5. \A j \in 1..nl : FALSE
        BY <3>2
      <3> QED
        BY <2>1, <2>2, <3>4, <3>5
    <2>3. ASSUME left
          PROVE  /\ drop \in Seq(K) /\ Len(drop) = nl /\ nl \in Nat
                 /\ \A j \in 1..nl : drop[j] = old[nt + j]
                 /\ nt < no => nl = no - nt
      <3>1. nt + 1 \in Int /\ no \in Int /\ no - (nt + 1) + 1 = no - nt
        BY <1>2, <1>3
      <3>2. \A j \in (nt + 1)..no : old[j] \in K
        BY <1>2, <1>3
      <3>3. drop = SubSeq(old, nt + 1, no)
        BY <2>3 DEF drop
      <3>4. /\ SubSeq(old, nt + 1, no) \in Seq(K)
            /\ Len(SubSeq(old, nt + 1, no)) = IF nt + 1 <= no THEN no - (nt + 1) + 1 ELSE 0
            /\ \A j \in 1..(no - (nt + 1) + 1) :
                 SubSeq(old, nt + 1, no)[j] = old[(nt + 1) + j - 1]
        BY <3>1, <3>2, SubSeqProperties
      <3>5. nl = IF nt < no THEN no - nt ELSE 0
        BY <2>3
      <3> HIDE DEF nl
      <3>6. drop \in Seq(K) /\ Len(drop) = nl
        BY <1>2, <1>3, <3>3, <3>4, <3>5
      <3>7. ASSUME NEW j \in 1..nl PROVE drop[j] = old[nt + j]
        <4>1. j \in 1..(no - (nt + 1) + 1) /\ (nt + 1) + j - 1 = nt + j
          BY <1>2, <1>3, <3>5
        <4> QED
          BY <3>3, <3>4, <4>1
      <3> QED
        BY <2>1, <3>5, <3>6, <3>7
    <2> HIDE DEF nl
    <2> QED
      BY <2>2, <2>3
  <1> HIDE DEF keep, nk, nl, drop
  <1> DEFINE doomed2 == tx2.doomed
             n2 == nk + nl
  <1>15. /\ doomed2 \in Seq(K) /\ Len(doomed2) = n2 /\ n2 \in Nat
         /\ \A j \in 1..n2 : doomed2[j] = IF j <= nk THEN doomed[p + j] ELSE old[nt + (j - nk)]
    <2>1. tx2.doomed = keep \o drop
      BY <1>4 DEF keep
    <2>2. /\ keep \o drop \in Seq(K) /\ Len(keep \o drop) = Len(keep) + Len(drop)
          /\ \A j \in 1..(Len(keep) + Len(drop)) :
               (keep \o drop)[j] = IF j <= Len(keep) THEN keep[j] ELSE drop[j - Len(keep)]
      BY <1>13, <1>14, ConcatProperties
    <2> QED
      BY <1>13, <1>14, <2>1, <2>2
  <1> HIDE DEF n2, doomed2
  \* Of the keys before, which are to be deleted now.
  <1>16. ASSUME NEW j \in 1..n2
         PROVE  \/ \E i \in (p + 1)..nd : doomed2[j] = doomed[i]
                \/ \E i \in (nt + 1)..no : doomed2[j] = old[i]
    <2>1. CASE j <= nk
      <3>1. p + j \in (p + 1)..nd
        BY <1>1, <1>5, <1>13, <2>1 DEF nk
      <3> QED
        BY <1>15, <2>1, <3>1
    <2>2. CASE ~ (j <= nk)
      <3>1. j - nk \in 1..nl /\ nl # 0
        BY <1>13, <1>14, <1>15, <2>2 DEF n2
      <3>2. nl = no - nt
        BY <3>1 DEF nl
      <3>3. nt + (j - nk) \in (nt + 1)..no
        BY <1>2, <1>3, <1>13, <3>1, <3>2
      <3> QED
        BY <1>15, <2>2, <3>3
    <2> QED
      BY <2>1, <2>2
  <1>17. ASSUME NEW i \in (p + 1)..nd PROVE \E j \in 1..n2 : doomed2[j] = doomed[i]
    <2>1. i - p \in 1..n2 /\ i - p <= nk /\ p + (i - p) = i
      BY <1>1, <1>5, <1>13, <1>14 DEF nk, n2
    <2> QED
      BY <1>15, <2>1
  <1>18. ASSUME NEW i \in (nt + 1)..no PROVE \E j \in 1..n2 : doomed2[j] = old[i]
    <2>1. nt < no /\ nl = no - nt
      BY <1>2, <1>3, <1>14
    <2>2. /\ nk + (i - nt) \in 1..n2 /\ ~ (nk + (i - nt) <= nk)
          /\ nt + ((nk + (i - nt)) - nk) = i
      BY <1>2, <1>3, <1>13, <2>1 DEF n2
    <2> QED
      BY <1>15, <2>2
  <1>19. DOMAIN doomed2 = 1..n2
    BY <1>15
  <1>20. ASSUME NEW k \in Range(doomed2)
         PROVE  \/ \E i \in (p + 1)..nd : k = doomed[i]
                \/ \E i \in (nt + 1)..no : k = old[i]
    BY <1>16, <1>19, <1>20 DEF Range
  <1>21. /\ \A i \in (p + 1)..nd : doomed[i] \in Range(doomed2)
         /\ \A i \in (nt + 1)..no : old[i] \in Range(doomed2)
    BY <1>17, <1>18, <1>19 DEF Range
  <1>22. ASSUME NEW i \in 1..n2, NEW j \in 1..n2, doomed2[i] = doomed2[j] PROVE i = j
    <2>1. \A x \in 1..nd, y \in 1..no : doomed[x] # old[y]
      BY <1>1, <1>3, <1>6
    <2>2. ASSUME NEW x \in 1..n2, x <= nk PROVE p + x \in 1..nd /\ doomed2[x] = doomed[p + x]
      BY <1>1, <1>5, <1>13, <1>15, <2>2 DEF nk
    <2>3. ASSUME NEW x \in 1..n2, ~ (x <= nk)
          PROVE  nt + (x - nk) \in 1..no /\ doomed2[x] = old[nt + (x - nk)]
      <3>1. x - nk \in 1..nl /\ nl # 0
        BY <1>13, <1>14, <1>15, <2>3 DEF n2
      <3>2. nl = no - nt
        BY <3>1 DEF nl
      <3>3. nt + (x - nk) \in 1..no
        BY <1>2, <1>3, <1>13, <3>1, <3>2
      <3> QED
        BY <1>15, <2>3, <3>3
    <2>4. CASE i <= nk /\ j <= nk
      <3>1. p + i \in 1..nd /\ p + j \in 1..nd /\ doomed[p + i] = doomed[p + j]
        BY <1>22, <2>2, <2>4
      <3>2. p + i = p + j
        BY <1>6, <3>1
      <3> QED
        BY <1>1, <1>5, <3>2
    <2>5. CASE ~ (i <= nk) /\ ~ (j <= nk)
      <3>1. /\ nt + (i - nk) \in 1..no /\ nt + (j - nk) \in 1..no
            /\ old[nt + (i - nk)] = old[nt + (j - nk)]
        BY <1>22, <2>3, <2>5
      <3>2. nt + (i - nk) = nt + (j - nk)
        BY <1>3, <3>1 DEF Keys
      <3> QED
        BY <1>2, <1>13, <3>2
    <2>6. CASE i <= nk /\ ~ (j <= nk)
      BY <1>22, <2>1, <2>2, <2>3, <2>6
    <2>7. CASE ~ (i <= nk) /\ j <= nk
      BY <1>22, <2>1, <2>2, <2>3, <2>7
    <2> QED
      BY <2>4, <2>5, <2>6, <2>7
  <1> DEFINE K2 == DOMAIN tx2.rows
             kept == Live(tx) \ O
  <1>23. KeysFit(tx2)
    <2>1. IsFiniteSet(K2)
      <3>1. IsFiniteSet(Range(slots))
        <4>1. slots \in Surjection(1..nt, Range(slots))
          <5>1. slots \in [1..nt -> Range(slots)]
            BY <1>9, <1>7 DEF slots
          <5> QED
            BY <1>7, <1>8, <5>1 DEF Surjection
        <4>2. IsFiniteSet(1..nt)
          BY <1>2, FS_Interval
        <4> QED
          BY <4>1, <4>2, FS_Surjection
      <3> QED
        BY <1>1, <1>10, <3>1, FS_Union
    <2>2. Keys(doomed2, n2, K2)
      <3>1. doomed2 \in Seq(K2)
        BY <1>10, <1>15, SeqMonotonic
      <3>2. \A j \in 1..n2 : doomed2[j] \in K2
        <4> HIDE DEF K2
        <4> QED
          BY <1>15, <3>1, ElementOfSeq
      <3> HIDE DEF K2
      <3> QED
        BY <1>15, <1>22, <3>1, <3>2 DEF Keys
    <2> QED
      BY <1>15, <2>1, <2>2 DEF KeysFit, doomed2
  <1>24. Live(tx2) = K2 \ Range(doomed2) /\ Live(tx) = K \ Range(doomed)
    BY DEF Live, doomed2, K, doomed
  <1>25. \A k \in O : \E j \in 1..no : old[j] = k
    BY <1>3
  <1>26. ASSUME NEW k \in kept
         PROVE  k \in Live(tx2) /\ tx2.rows[k] = R[k] /\ \A i \in 1..nt : slot(i) # k
    <2>1. k \in K /\ k \notin Range(doomed) /\ k \notin O
      BY <1>24
    <2>2. ASSUME NEW i \in 1..nt, slot(i) = k PROVE FALSE
      <3>1. \/ \E j \in 1..no : slot(i) = old[j]
            \/ \E j \in 1..nd : slot(i) = doomed[j]
        BY <1>5, <2>1, <2>2
      <3>2. \A j \in 1..no : old[j] # k
        BY <1>3, <2>1
      <3>3. \A j \in 1..nd : doomed[j] # k
        BY <1>6, <2>1
      <3> QED
        BY <2>2, <3>1, <3>2, <3>3
    <2>3. k \notin Range(doomed2)
      <3>1. \A i \in (p + 1)..nd : i \in 1..nd
        BY <1>1, <1>5
      <3>2. \A i \in (nt + 1)..no : i \in 1..no
        BY <1>2, <1>3
      <3> QED
        BY <1>3, <1>6, <1>20, <2>1, <3>1, <3>2
    <2> QED
      BY <1>10, <1>12, <1>24, <2>1, <2>2, <2>3
  <1>27. ASSUME NEW k \in Live(tx2) \ kept PROVE \E i \in 1..nt : slot(i) = k
    <2> SUFFICES ASSUME \A i \in 1..nt : slot(i) # k PROVE FALSE
      OBVIOUS
    <2>1. k \in K /\ k \notin Range(doomed2)
      BY <1>8, <1>10, <1>24
    <2>2. k \notin Range(doomed)
      <3> SUFFICES ASSUME NEW i \in 1..nd, doomed[i] = k PROVE FALSE
        BY <1>6
      <3>1. CASE i <= p
        <4>1. i \in 1..p
          BY <1>1, <1>5, <3>1
        <4> QED
          BY <1>5, <4>1
      <3>2. CASE ~ (i <= p)
        <4>1. i \in (p + 1)..nd
          BY <1>1, <1>5, <3>2
        <4> QED
          BY <1>21, <2>1, <4>1
      <3> QED
        BY <3>1, <3>2
    <2>3. k \notin O
      <3> SUFFICES ASSUME NEW i \in 1..no, old[i] = k PROVE FALSE
        BY <1>25
      <3>1. CASE i <= nt
        <4>1. i \in 1..nt /\ slot(i) = k
          BY <1>2, <1>5, <3>1
        <4> QED
          BY <4>1
      <3>2. CASE ~ (i <= nt)
        <4>1. i \in (nt + 1)..no
          BY <1>2, <1>3, <3>2
        <4> QED
          BY <1>21, <2>1, <4>1
      <3> QED
        BY <3>1, <3>2
    <2> QED
      BY <1>24, <2>1, <2>2, <2>3
  <1>28. ASSUME NEW i \in 1..nt PROVE slot(i) \in Live(tx2) \ kept
    <2>1. slot(i) \notin Range(doomed2)
      BY <1>5, <1>20
    <2>2. slot(i) \notin kept
      BY <1>26
    <2> QED
      BY <1>9, <1>10, <1>24, <2>1, <2>2
  <1>29. \A k \in Live(tx2) \ kept : tx2.rows[k] \in N
    BY <1>2, <1>11, <1>27
  <1>30. ASSUME NEW k \in Live(tx2) \ kept, NEW l \in Live(tx2) \ kept, tx2.rows[k] = tx2.rows[l]
         PROVE  k = l
    <2>1. PICK i \in 1..nt : slot(i) = k
      BY <1>27
    <2>2. PICK j \in 1..nt : slot(j) = l
      BY <1>27
    <2>3. targets[i] = targets[j]
      BY <1>11, <1>30, <2>1, <2>2
    <2>4. i = j
      BY <1>2, <2>3
    <2> QED
      BY <2>1, <2>2, <2>4
  <1>31. ASSUME NEW r \in N PROVE \E k \in Live(tx2) \ kept : tx2.rows[k] = r
    <2>1. PICK i \in 1..nt : targets[i] = r
      BY <1>2
    <2> QED
      BY <1>11, <1>28, <2>1
  <1>32. ASSUME NEW k \in K2 PROVE k \in K \/ \E x : k = <<x, g>>
    <2> SUFFICES ASSUME NEW i \in 1..nt, slot(i) = k, k \notin K PROVE \E x : k = <<x, g>>
      BY <1>8, <1>10
    <2>1. slot(i) \in K \/ slot(i) = <<targets[i], g>>
      <3>1. CASE i <= no
        <4>1. i \in 1..no /\ slot(i) = old[i]
          BY <1>2, <1>3, <3>1 DEF slot, SlotOf
        <4> QED
          BY <1>3, <4>1
      <3>2. CASE ~ (i <= no) /\ i - no <= nd
        <4>1. i - no \in 1..nd /\ slot(i) = doomed[i - no]
          BY <1>1, <1>2, <1>3, <3>2 DEF slot, SlotOf, nd
        <4> QED
          BY <1>6, <4>1
      <3>3. CASE ~ (i <= no) /\ ~ (i - no <= nd)
        BY <1>1, <1>3, <3>3 DEF slot, SlotOf, nd
      <3> QED
        BY <3>1, <3>2, <3>3
    <2> QED
      BY <2>1
  <1>33. ASSUME NEW k \in Range(doomed2)
         PROVE  k \in K /\ tx2.rows[k] = R[k] /\ (k \in Range(doomed) \/ k \in O)
    <2>1. k \in K /\ (k \in Range(doomed) \/ k \in O)
      <3>1. \A i \in (p + 1)..nd : i \in 1..nd
        BY <1>1, <1>5
      <3>2. \A i \in (nt + 1)..no : i \in 1..no
        BY <1>2, <1>3
      <3> QED
        BY <1>3, <1>6, <1>20, <3>1, <3>2
    <2>2. \A i \in 1..nt : slot(i) # k
      BY <1>5, <1>20
    <2> QED
      BY <1>12, <2>1, <2>2
  <1> HIDE DEF kept
  <1>34. Written(tx, tx2, plan, g)
    BY <1>23, <1>26, <1>29, <1>30, <1>31, <1>32, <1>33
       DEF Written, kept, K, K2, O, N, R, doomed, doomed2
  <1> QED
    BY <1>34 DEF tx2

\* The rows that are to stay are those of X, each at one key.
Holds(tx, X) ==
  /\ KeysFit(tx)
  /\ \A k \in Live(tx) : tx.rows[k] \in X
  /\ \A k, l \in Live(tx) : tx.rows[k] = tx.rows[l] => k = l
  /\ \A r \in X : \E k \in Live(tx) : tx.rows[k] = r

\* The rows of X that the paths of g replace.
OldRows(X, plan, g) == {r \in X : r.anc \in plan.old[g] /\ r.desc \in DownOf(plan, g)}

\* The paths of g are new ones, and either not fewer than the old ones or the
\* rest of those is doomed.
Replaces(X, plan, g) ==
  /\ IsFiniteSet(TargetsOf(plan, g))
  /\ \A r \in TargetsOf(plan, g) : r \in X => r \in OldRows(X, plan, g)
  /\ \/ Cardinality(plan.old[g]) > Len(plan.new[g])
     \/ Cardinality(OldRows(X, plan, g)) <= Cardinality(TargetsOf(plan, g))

\* The rows of X after the paths of g are written.
Replaced(X, plan, g) == (X \ OldRows(X, plan, g)) \cup TargetsOf(plan, g)

\* Writing one tree replaces its rows.
LEMMA TreeWritten ==
  ASSUME NEW tx, NEW X, Holds(tx, X), NEW plan, NEW g, Replaces(X, plan, g),
         \A x : <<x, g>> \notin DOMAIN tx.rows,
         \A k \in Range(tx.doomed) : tx.rows[k].desc \notin DownOf(plan, g)
  PROVE  LET tx2 == ConstructEditPaths(tx, plan, g)
         IN  /\ Holds(tx2, Replaced(X, plan, g))
             /\ \A k \in DOMAIN tx2.rows : k \in DOMAIN tx.rows \/ \E x : k = <<x, g>>
             /\ \A k \in Range(tx2.doomed) :
                  \/ tx2.rows[k].desc \in DownOf(plan, g)
                  \/ k \in Range(tx.doomed) /\ tx2.rows[k] = tx.rows[k]
  <1> DEFINE tx2 == ConstructEditPaths(tx, plan, g)
             N == TargetsOf(plan, g)
             K == OldKeys(tx, plan, g)
             O == OldRows(X, plan, g)
  <1>1. /\ KeysFit(tx) /\ \A k \in Live(tx) : tx.rows[k] \in X
        /\ \A k, l \in Live(tx) : tx.rows[k] = tx.rows[l] => k = l
        /\ \A r \in X : \E k \in Live(tx) : tx.rows[k] = r
    BY DEF Holds
  <1>2. /\ K \subseteq DOMAIN tx.rows
        /\ \A k \in K : tx.rows[k].anc \in plan.old[g] /\ tx.rows[k].desc \in DownOf(plan, g)
        /\ \A k \in K : k \notin Range(tx.doomed)
    BY DEF OldKeys
  <1>3. K \subseteq Live(tx)
    BY <1>2 DEF Live
  <1>4. \A k \in Live(tx) : k \in K <=> tx.rows[k] \in O
    BY <1>1 DEF OldKeys, OldRows, Live
  <1>5. Cardinality(K) = Cardinality(O)
    <2> DEFINE f == [k \in K |-> tx.rows[k]]
    <2>1. f \in [K -> O]
      BY <1>3, <1>4
    <2>2. \A k, l \in K : f[k] = f[l] => k = l
      BY <1>1, <1>3
    <2>3. \A r \in O : \E k \in K : f[k] = r
      <3> SUFFICES ASSUME NEW r \in O PROVE \E k \in K : f[k] = r
        OBVIOUS
      <3>1. r \in X
        BY DEF OldRows
      <3>2. PICK k \in Live(tx) : tx.rows[k] = r
        BY <1>1, <3>1
      <3> QED
        BY <1>4, <3>2
    <2>4. IsFiniteSet(K)
      BY <1>1, <1>2, FS_Subset DEF KeysFit
    <2> HIDE DEF f, K, O
    <2>5. f \in Bijection(K, O)
      BY <2>1, <2>2, <2>3 DEF Bijection, Injection, IsInjective, Surjection
    <2> QED
      BY <2>4, <2>5, FS_Bijection DEF ExistsBijection
  <1>6. MayWrite(tx, plan, g)
    BY <1>1, <1>2, <1>5 DEF MayWrite, Replaces
  <1>7. Written(tx, tx2, plan, g)
    BY <1>6, PathsWritten
  <1> DEFINE kept == Live(tx) \ K
  <1>8. /\ KeysFit(tx2)
        /\ \A k \in kept : k \in Live(tx2) /\ tx2.rows[k] = tx.rows[k]
        /\ \A k \in Live(tx2) \ kept : tx2.rows[k] \in N
        /\ \A k, l \in Live(tx2) \ kept : tx2.rows[k] = tx2.rows[l] => k = l
        /\ \A r \in N : \E k \in Live(tx2) \ kept : tx2.rows[k] = r
        /\ \A k \in DOMAIN tx2.rows : k \in DOMAIN tx.rows \/ \E x : k = <<x, g>>
        /\ \A k \in Range(tx2.doomed) :
             /\ k \in DOMAIN tx.rows /\ tx2.rows[k] = tx.rows[k]
             /\ k \in Range(tx.doomed) \/ k \in K
    <2> HIDE DEF tx2
    <2> QED
      BY <1>7 DEF Written
  <1>9. \A r \in N : r \in X => r \in O
    BY DEF Replaces
  <1>10. Replaced(X, plan, g) = (X \ O) \cup N
    BY DEF Replaced
  <1> HIDE DEF tx2, N, K, O
  <1>11. \A k \in kept : tx2.rows[k] \in X \ O
    BY <1>1, <1>4, <1>8
  <1>12. ASSUME NEW k \in Live(tx2) PROVE tx2.rows[k] \in (X \ O) \cup N
    BY <1>8, <1>11
  <1>13. ASSUME NEW k \in Live(tx2), NEW l \in Live(tx2), tx2.rows[k] = tx2.rows[l] PROVE k = l
    <2>1. CASE k \in kept /\ l \in kept
      BY <1>1, <1>8, <1>13, <2>1
    <2>2. CASE k \in kept /\ l \notin kept
      BY <1>8, <1>9, <1>11, <1>13, <2>2
    <2>3. CASE k \notin kept /\ l \in kept
      BY <1>8, <1>9, <1>11, <1>13, <2>3
    <2>4. CASE k \notin kept /\ l \notin kept
      BY <1>8, <1>13, <2>4
    <2> QED
      BY <2>1, <2>2, <2>3, <2>4
  <1>14. ASSUME NEW r \in (X \ O) \cup N PROVE \E k \in Live(tx2) : tx2.rows[k] = r
    <2>1. CASE r \in N
      BY <1>8, <2>1
    <2>2. CASE r \in X \ O
      <3>1. PICK k \in Live(tx) : tx.rows[k] = r
        BY <1>1, <2>2
      <3>2. k \in kept
        BY <1>4, <2>2, <3>1
      <3> QED
        BY <1>8, <3>1, <3>2
    <2> QED
      BY <2>1, <2>2
  <1>15. Holds(tx2, Replaced(X, plan, g))
    BY <1>8, <1>10, <1>12, <1>13, <1>14 DEF Holds
  <1> QED
    BY <1>2, <1>8, <1>15 DEF tx2

\* The transaction before anything is written.
Started(T) == [rows |-> [k \in T \X {Root} |-> k[1]], doomed |-> <<>>]

PlanStages(T, plan, tx) ==
  /\ tx[0] = Started(T)
  /\ \A n \in 1..Len(plan.order) : tx[n] = ConstructEditPaths(tx[n - 1], plan, plan.order[n])
  /\ ApplyPlan(T, plan) = tx[Len(plan.order)]

\* ApplyPlan writes one tree after the other.
LEMMA TreesByOne ==
  ASSUME NEW T, NEW plan, Len(plan.order) \in Nat
  PROVE  \E tx : PlanStages(T, plan, tx)
  <1> DEFINE N == Len(plan.order)
             Start == Started(T)
             Upto(f, m) == f = [n \in 0..m |-> IF n = 0 THEN Start
                                 ELSE ConstructEditPaths(f[n - 1], plan, plan.order[n])]
             K == {m \in 0..N : \E f : Upto(f, m)}
  <1> HIDE DEF Start
  <1>1. 0 \in K
    <2> DEFINE f == [i \in 0..0 |-> Start]
    <2>1. Upto(f, 0)
      OBVIOUS
    <2> HIDE DEF f, Upto
    <2> QED
      BY <2>1
  <1>2. ASSUME NEW n \in 1..N, n - 1 \in K PROVE n \in K
    <2>1. PICK f : Upto(f, n - 1)
      BY <1>2
    <2> DEFINE h == [i \in 0..n |->
                       IF i = n THEN ConstructEditPaths(f[n - 1], plan, plan.order[n]) ELSE f[i]]
    <2>2. h[0] = Start
      BY <2>1
    <2>3. ASSUME NEW i \in 1..n PROVE h[i] = ConstructEditPaths(h[i - 1], plan, plan.order[i])
      <3>1. h[i - 1] = f[i - 1]
        OBVIOUS
      <3>2. i # n => f[i] = ConstructEditPaths(f[i - 1], plan, plan.order[i])
        BY <2>1
      <3> QED
        BY <3>1, <3>2
    <2>4. Upto(h, n)
      <3> DEFINE k == [i \in 0..n |-> IF i = 0 THEN Start
                                      ELSE ConstructEditPaths(h[i - 1], plan, plan.order[i])]
      <3>1. \A i \in 0..n : h[i] = k[i]
        <4> SUFFICES ASSUME NEW i \in 0..n PROVE h[i] = k[i]
          OBVIOUS
        <4>1. CASE i = 0
          BY <4>1, <2>2
        <4>2. CASE i # 0
          <5>1. i \in 1..n
            BY <4>2
          <5> HIDE DEF h
          <5> QED
            BY <4>2, <5>1, <2>3
        <4> QED
          BY <4>1, <4>2
      <3>2. DOMAIN h = 0..n /\ h = [i \in DOMAIN h |-> h[i]]
        OBVIOUS
      <3>3. DOMAIN k = 0..n /\ k = [i \in DOMAIN k |-> k[i]]
        OBVIOUS
      <3>4. h = k
        <4> HIDE DEF h, k
        <4> QED
          BY <3>1, <3>2, <3>3
      <3> QED
        BY <3>4
    <2> HIDE DEF h, Upto
    <2> QED
      BY <2>4
  <1> HIDE DEF K
  <1>3. 0..N \subseteq K
    <2>1. N \in Nat /\ \A n \in 1..N : n - 1 \in K => n \in K
      BY <1>2
    <2> HIDE DEF N
    <2> QED
      BY <1>1, <2>1, NatSetInduction
  <1>4. \E f : Upto(f, N)
    <2>1. N \in K
      BY <1>3
    <2> HIDE DEF Upto
    <2> QED
      BY <2>1 DEF K
  <1> DEFINE tx == CHOOSE f : Upto(f, N)
  <1>5. Upto(tx, N)
    BY <1>4
  <1>6. ApplyPlan(T, plan) = tx[N]
    BY DEF ApplyPlan, Start, Started
  <1> HIDE DEF tx
  <1>7. tx[0] = Start /\ \A n \in 1..N : tx[n] = ConstructEditPaths(tx[n - 1], plan, plan.order[n])
    <2>1. N \in Nat
      OBVIOUS
    <2> HIDE DEF N
    <2>2. tx[0] = Start
      BY <1>5, <2>1
    <2>3. ASSUME NEW n \in 1..N PROVE tx[n] = ConstructEditPaths(tx[n - 1], plan, plan.order[n])
      <3>1. n \in 0..N /\ n # 0
        BY <2>1
      <3> QED
        BY <1>5, <3>1
    <2> QED
      BY <2>2, <2>3
  <1> QED
    BY <1>6, <1>7 DEF PlanStages, Start

\* The trees of a plan, E, are written once each, in the order of the plan,
\* and each below groups of its own.
PlanFits(T, plan, E) ==
  /\ IsFiniteSet(T) /\ Root \notin E
  /\ Len(plan.order) \in Nat
  /\ \A i \in 1..Len(plan.order) : plan.order[i] \in E
  /\ \A i, j \in 1..Len(plan.order) : plan.order[i] = plan.order[j] => i = j
  /\ \A g \in E : \E i \in 1..Len(plan.order) : plan.order[i] = g
  /\ \A g \in E : Replaces(T, plan, g)
  /\ \A g, h \in E : g # h => DownOf(plan, g) \cap DownOf(plan, h) = {}

\* The rows T with those of the trees S replaced.
AllReplaced(T, plan, S) ==
  {r \in T : \A g \in S : r \notin OldRows(T, plan, g)} \cup
  UNION {TargetsOf(plan, g) : g \in S}

\* Writing a plan replaces the rows of all its trees.
LEMMA PlanWritten ==
  ASSUME NEW T, NEW plan, NEW E, PlanFits(T, plan, E)
  PROVE  Holds(ApplyPlan(T, plan), AllReplaced(T, plan, E))
  <1> DEFINE n == Len(plan.order)
             s == plan.order
             Old(g) == OldRows(T, plan, g)
             New(g) == TargetsOf(plan, g)
             Down(g) == DownOf(plan, g)
             Done(m) == {s[i] : i \in 1..m}
             X(m) == AllReplaced(T, plan, Done(m))
  <1>1. /\ n \in Nat /\ IsFiniteSet(T) /\ Root \notin E
        /\ \A i \in 1..n : s[i] \in E
        /\ \A i, j \in 1..n : s[i] = s[j] => i = j
        /\ \A g \in E : \E i \in 1..n : s[i] = g
        /\ \A g \in E : Replaces(T, plan, g)
        /\ \A g, h \in E : g # h => Down(g) \cap Down(h) = {}
    BY DEF PlanFits
  <1>2. PICK tx : PlanStages(T, plan, tx)
    BY <1>1, TreesByOne
  <1>3. /\ tx[0] = Started(T)
        /\ \A m \in 1..n : tx[m] = ConstructEditPaths(tx[m - 1], plan, s[m])
        /\ ApplyPlan(T, plan) = tx[n]
    BY <1>2 DEF PlanStages
  <1>4. /\ \A g : \A r \in New(g) : r.desc \in Down(g)
        /\ \A g : \A r \in Old(g) : r.desc \in Down(g) /\ r \in T
    BY RowFields DEF TargetsOf, OldRows, DownOf
  <1> DEFINE Good(m) == /\ Holds(tx[m], X(m))
                        /\ \A k \in DOMAIN tx[m].rows :
                             \E x : \E z \in Done(m) \cup {Root} : k = <<x, z>>
                        /\ \A k \in Range(tx[m].doomed) :
                             \E h \in Done(m) : tx[m].rows[k].desc \in Down(h)
             K == {m \in 0..n : Good(m)}
  <1>5. Good(0)
    <2> DEFINE t == Started(T)
    <2>1. /\ t.rows = [k \in T \X {Root} |-> k[1]] /\ t.doomed = <<>>
          /\ DOMAIN t.rows = T \X {Root}
      BY DEF Started
    <2> HIDE DEF t
    <2>2. Range(t.doomed) = {} /\ Len(t.doomed) = 0
      BY <2>1 DEF Range
    <2>3. IsFiniteSet(DOMAIN t.rows)
      <3>1. IsFiniteSet(T) /\ IsFiniteSet({Root})
        BY <1>1, FS_Singleton
      <3>2. IsFiniteSet(T \X {Root})
        BY <3>1, FS_Product
      <3> QED
        BY <2>1, <3>2
    <2>4. KeysFit(t)
      BY <2>1, <2>2, <2>3 DEF KeysFit, Keys
    <2>5. Live(t) = T \X {Root}
      BY <2>1, <2>2 DEF Live
    <2>6. X(0) = T
      BY DEF AllReplaced
    <2>7. Holds(t, T)
      <3>1. \A k \in Live(t) : t.rows[k] = k[1] /\ k[1] \in T /\ k = <<k[1], Root>>
        BY <2>1, <2>5
      <3>2. \A r \in T : <<r, Root>> \in Live(t) /\ t.rows[<<r, Root>>] = r
        BY <2>1, <2>5
      <3>3. \A k, l \in Live(t) : t.rows[k] = t.rows[l] => k = l
        BY <3>1
      <3> QED
        BY <2>4, <3>1, <3>2, <3>3 DEF Holds
    <2>8. \A k \in DOMAIN t.rows : \E x : \E z \in Done(0) \cup {Root} : k = <<x, z>>
      BY <2>1
    <2>9. t = tx[0]
      BY <1>3 DEF t
    <2> HIDE DEF X
    <2> QED
      BY <2>2, <2>6, <2>7, <2>8, <2>9
  <1> HIDE DEF New, Old, Down
  <1>6. ASSUME NEW m \in 1..n, Good(m - 1) PROVE Good(m)
    <2> DEFINE g == s[m]
               t == tx[m - 1]
               Y == X(m - 1)
    <2>1. m - 1 \in 0..n /\ m \in 1..n
      BY <1>1
    <2>2. Done(m) = Done(m - 1) \cup {g} /\ g \in E /\ g \notin Done(m - 1) /\ Done(m - 1) \subseteq E
      <3>1. 1..m = (1..(m - 1)) \cup {m} /\ 1..(m - 1) \subseteq 1..n /\ m \notin 1..(m - 1)
        BY <1>1
      <3> QED
        BY <1>1, <3>1
    <2> HIDE DEF g
    <2>3. \A h \in Done(m - 1) : Down(g) \cap Down(h) = {}
      BY <1>1, <2>2
    <2>4. \A r : r \in Y <=> \/ r \in T /\ \A h \in Done(m - 1) : r \notin Old(h)
                             \/ \E h \in Done(m - 1) : r \in New(h)
      BY DEF AllReplaced, Old, New
    <2>5. OldRows(Y, plan, g) = Old(g)
      <3>1. \A r \in Y : r.desc \in Down(g) => r \in T
        BY <1>4, <2>3, <2>4
      <3>2. \A r \in Old(g) : r \in Y
        BY <1>4, <2>3, <2>4
      <3> HIDE DEF Y
      <3> QED
        BY <3>1, <3>2 DEF OldRows, Old, Down
    <2>6. Replaces(Y, plan, g)
      <3>1. /\ IsFiniteSet(New(g))
            /\ \A r \in New(g) : r \in T => r \in Old(g)
            /\ \/ Cardinality(plan.old[g]) > Len(plan.new[g])
               \/ Cardinality(Old(g)) <= Cardinality(New(g))
        BY <1>1, <2>2 DEF Replaces, Old, New
      <3>2. \A r \in New(g) : r \in Y => r \in Old(g)
        BY <1>4, <2>3, <2>4, <3>1
      <3> HIDE DEF Y
      <3> QED
        BY <2>5, <3>1, <3>2 DEF Replaces, New
    <2>7. Replaced(Y, plan, g) = X(m)
      <3>1. \A r : r \in X(m) <=> \/ r \in T /\ \A h \in Done(m) : r \notin Old(h)
                                  \/ \E h \in Done(m) : r \in New(h)
        BY DEF AllReplaced, Old, New
      <3>2. \A r : r \in Replaced(Y, plan, g) <=> (r \in Y /\ r \notin Old(g)) \/ r \in New(g)
        BY <2>5 DEF Replaced, New
      <3>3. \A h \in Done(m - 1) : \A r \in New(h) : r \notin Old(g)
        BY <1>4, <2>3
      <3> HIDE DEF X, Y, Done
      <3>4. \A r : r \in Replaced(Y, plan, g) <=> r \in X(m)
        BY <2>2, <2>4, <3>1, <3>2, <3>3
      <3>5. Replaced(Y, plan, g) = {r \in Replaced(Y, plan, g) : TRUE} /\ X(m) = {r \in X(m) : TRUE}
        OBVIOUS
      <3> QED
        BY <3>4
    <2>8. Holds(t, Y) /\ \A x : <<x, g>> \notin DOMAIN t.rows
      <3>1. Root # g
        BY <1>1, <2>2
      <3> HIDE DEF Y, Done
      <3> QED
        BY <1>6, <2>2, <3>1 DEF Y
    <2>9. \A k \in Range(t.doomed) : t.rows[k].desc \notin DownOf(plan, g)
      BY <1>6, <2>3 DEF Down
    <2> DEFINE u == ConstructEditPaths(t, plan, g)
    <2>10. tx[m] = u
      BY <1>3 DEF g
    <2> HIDE DEF t, Y
    <2>11. /\ Holds(u, Replaced(Y, plan, g))
           /\ \A k \in DOMAIN u.rows : k \in DOMAIN t.rows \/ \E x : k = <<x, g>>
           /\ \A k \in Range(u.doomed) : \/ u.rows[k].desc \in DownOf(plan, g)
                                         \/ k \in Range(t.doomed) /\ u.rows[k] = t.rows[k]
      BY <2>6, <2>8, <2>9, TreeWritten
    <2> HIDE DEF u, X, Done
    <2>12. \A k \in DOMAIN u.rows : \E x : \E z \in Done(m) \cup {Root} : k = <<x, z>>
      BY <1>6, <2>2, <2>11 DEF t
    <2>13. \A k \in Range(u.doomed) : \E h \in Done(m) : u.rows[k].desc \in Down(h)
      BY <1>6, <2>2, <2>11 DEF t, Down
    <2> QED
      BY <2>7, <2>10, <2>11, <2>12, <2>13
  <1> HIDE DEF Good
  <1>7. 0..n \subseteq K
    <2>1. 0 \in K /\ \A m \in 1..n : m - 1 \in K => m \in K
      BY <1>1, <1>5, <1>6
    <2> HIDE DEF K, n
    <2> QED
      BY <1>1, <2>1, NatSetInduction
  <1>8. Good(n)
    BY <1>1, <1>7
  <1>9. Done(n) = E
    BY <1>1
  <1> QED
    BY <1>3, <1>8, <1>9 DEF Good

-----------------------------------------------------------------------------
(* The update as a whole keeps the table, and with it every step of a       *)
(* worker whose request was checked and has no tangled plan.                *)

\* A table has finitely many rows.
LEMMA TableIsFinite ==
  ASSUME NEW F, IsFiniteSet(DOMAIN F), NEW T, Faithful(T, F), NEW N \in Nat, Sound(F, T, N)
  PROVE  IsFiniteSet(T)
  <1> DEFINE D == DOMAIN F
             f == [r \in T |-> <<r.desc, r.depth>>]
  <1>1. \A r \in T : r.desc \in D /\ r.depth \in 0..N
    BY DEF Sound
  <1>2. \A q, r \in T : q.desc = r.desc /\ q.depth = r.depth => q = r
    BY DEF Sound
  <1>3. f \in Injection(T, D \X (0..N))
    BY <1>1, <1>2 DEF Injection, IsInjective
  <1>4. IsFiniteSet(D \X (0..N))
    <2>1. IsFiniteSet(D) /\ IsFiniteSet(0..N)
      BY FS_Interval
    <2> QED
      BY <2>1, FS_Product
  <1> HIDE DEF f
  <1> QED
    BY <1>3, <1>4, FS_Injection

\* The groups below which the paths of a moved tree change.
LEMMA DownIs ==
  ASSUME NEW F, NEW T, NEW H, NEW U, NEW posted, Change(F, T, H, U, posted),
         ~ Tangled(EditPlan(T, posted)), NEW g \in Moved(F, H)
  PROVE  \A d : d \in DownOf(EditPlan(T, posted), g) <=> \E j : Under(T, Moved(F, H), g, d, j)
  <1> DEFINE desc == EditPlan(T, posted).desc[g]
  <1>1. \A r \in desc : r = Row(g, r.desc, r.depth) /\ Under(T, Moved(F, H), g, r.desc, r.depth)
    BY NewDescendantsAre
  <1>2. \A d, j : Under(T, Moved(F, H), g, d, j) => Row(g, d, j) \in desc
    BY NewDescendantsAre
  <1>3. DownOf(EditPlan(T, posted), g) = {r.desc : r \in desc}
    BY DEF DownOf
  <1> HIDE DEF desc
  <1> QED
    BY <1>1, <1>2, <1>3, RowFields

\* The new paths of a moved tree are those of the new hierarchy that go from
\* beyond it to below it.
LEMMA TargetsAre ==
  ASSUME NEW F, NEW T, NEW H, NEW U, NEW posted, Change(F, T, H, U, posted),
         ~ Tangled(EditPlan(T, posted)), Orders(Dependency(T, posted)) # {},
         NEW g \in Moved(F, H)
  PROVE  LET N == TargetsOf(EditPlan(T, posted), g)
         IN  /\ N \subseteq U
             /\ \A a, d, n : Row(a, d, n) \in N <=>
                  Row(a, d, n) \in U /\ \E j : Under(T, Moved(F, H), g, d, j) /\ n > j
  <1> DEFINE E == Moved(F, H)
             plan == EditPlan(T, posted)
             N == TargetsOf(plan, g)
             up == plan.new[g]
             desc == plan.desc[g]
             L == Len(up)
  <1>1. Lists(U, H[g], up)
    <2>1. up = NewAncestors(T, posted, Dependency(T, posted))[g]
      BY DEF EditPlan
    <2> QED
      BY <2>1, NewAncestorsAre
  <1>2. /\ \A r \in desc : r = Row(g, r.desc, r.depth) /\ Under(T, E, g, r.desc, r.depth)
        /\ \A d, j : Under(T, E, g, d, j) => Row(g, d, j) \in desc
    BY NewDescendantsAre
  <1>3. N = {Row(up[i], r.desc, Len(up) - i + 1 + r.depth) : i \in DOMAIN up, r \in desc}
    BY DEF TargetsOf
  <1>4. Faithful(T, F) /\ Faithful(U, H) /\ DOMAIN H = DOMAIN F /\ g \in DOMAIN H
    BY DEF Change, Tree, Moved
  <1> HIDE DEF plan, N, E, up, desc
  <1>5. /\ L \in Nat /\ DOMAIN up = 1..L
        /\ \A a : \A n \in Nat : Row(a, H[g], n) \in U <=> n < L /\ a = up[L - n]
    BY <1>1, LenProperties DEF Lists
  <1> HIDE DEF L
  \* Up to g, and beyond.
  <1>6. ASSUME NEW d, NEW j, Under(T, E, g, d, j), NEW a, NEW k \in Nat
        PROVE  Row(a, d, j + (k + 1)) \in U <=> k < L /\ a = up[L - k]
    <2>1. d \in DOMAIN F /\ j \in Nat
      BY <1>4, <1>6, InTable DEF Under
    <2>2. k + 1 \in Nat
      OBVIOUS
    <2>3. Row(a, d, j + (k + 1)) \in U <=> Row(a, g, k + 1) \in U
      <3>1. \A n \in Nat : Row(a, d, j + n) \in U <=> Row(a, g, n) \in U
        BY <1>4, <1>6, <2>1, MovedPaths DEF E
      <3> QED
        BY <2>2, <3>1
    <2>4. Row(a, g, k + 1) \in U <=> Row(a, H[g], k) \in U
      BY <1>4, OneUp
    <2> QED
      BY <1>5, <2>3, <2>4
  <1>7. ASSUME NEW t \in N
        PROVE  \E a, d, j : \E k \in Nat : /\ t = Row(a, d, j + (k + 1)) /\ Under(T, E, g, d, j)
                                           /\ k < L /\ a = up[L - k]
    <2>1. PICK i \in DOMAIN up, r \in desc : t = Row(up[i], r.desc, Len(up) - i + 1 + r.depth)
      BY <1>3
    <2> DEFINE k == L - i
               j == r.depth
    <2>2. Under(T, E, g, r.desc, j) /\ j \in Nat
      BY <1>2 DEF Under
    <2>3. k \in Nat /\ k < L /\ i = L - k /\ Len(up) - i + 1 + r.depth = j + (k + 1)
      BY <1>5, <2>2 DEF L
    <2> HIDE DEF k, j
    <2> QED
      BY <2>1, <2>2, <2>3
  <1>8. ASSUME NEW a, NEW d, NEW j, NEW k \in Nat, Under(T, E, g, d, j), k < L, a = up[L - k]
        PROVE  Row(a, d, j + (k + 1)) \in N
    <2> DEFINE i == L - k
               r == Row(g, d, j)
    <2>1. i \in DOMAIN up /\ r \in desc /\ r.desc = d /\ r.depth = j /\ j \in Nat
      BY <1>2, <1>5, <1>8, RowFields DEF Under
    <2>2. L - i + 1 + j = j + (k + 1)
      BY <1>5, <2>1
    <2>3. Row(up[i], r.desc, L - i + 1 + r.depth) = Row(a, d, j + (k + 1))
      BY <1>8, <2>1, <2>2
    <2> HIDE DEF i, r
    <2> QED
      BY <1>3, <2>1, <2>3 DEF L
  <1>9. N \subseteq U
    BY <1>6, <1>7
  <1>10. ASSUME NEW a, NEW d, NEW n, Row(a, d, n) \in N
         PROVE  \E j : Under(T, E, g, d, j) /\ n > j
    <2>1. PICK b, e, j : \E k \in Nat : /\ Row(a, d, n) = Row(b, e, j + (k + 1))
                                        /\ Under(T, E, g, e, j)
      BY <1>7, <1>10
    <2>2. PICK k \in Nat : Row(a, d, n) = Row(b, e, j + (k + 1))
      BY <2>1
    <2>3. d = e /\ n = j + (k + 1)
      BY <2>2, RowFields
    <2>4. j \in Nat /\ Under(T, E, g, d, j)
      BY <2>1, <2>3 DEF Under
    <2>5. n > j
      BY <2>3, <2>4
    <2> QED
      BY <2>4, <2>5
  <1>11. ASSUME NEW a, NEW d, NEW n, Row(a, d, n) \in U, NEW j, Under(T, E, g, d, j), n > j
         PROVE  Row(a, d, n) \in N
    <2> DEFINE k == n - j - 1
    <2>1. n \in Nat
      BY <1>4, <1>11, InTable
    <2>2. j \in Nat
      BY <1>11 DEF Under
    <2>3. k \in Nat /\ n = j + (k + 1)
      BY <1>11, <2>1, <2>2
    <2> HIDE DEF k
    <2>4. Row(a, d, j + (k + 1)) \in U
      BY <1>11, <2>3
    <2>5. k < L /\ a = up[L - k]
      BY <1>6, <1>11, <2>3, <2>4
    <2> QED
      BY <1>8, <1>11, <2>3, <2>5
  <1> QED
    BY <1>9, <1>10, <1>11 DEF N, E, plan

\* The old ones are those of the table that do.
LEMMA OldRowsAre ==
  ASSUME NEW F, NEW T, NEW H, NEW U, NEW posted, Change(F, T, H, U, posted),
         ~ Tangled(EditPlan(T, posted)), NEW g \in Moved(F, H)
  PROVE  \A a, d, n : Row(a, d, n) \in OldRows(T, EditPlan(T, posted), g) <=>
           Row(a, d, n) \in T /\ \E j : Under(T, Moved(F, H), g, d, j) /\ n > j
  <1> DEFINE E == Moved(F, H)
             plan == EditPlan(T, posted)
             c == Chain(T, F[g])
  <1>1. Tree(T, F) /\ Faithful(T, F) /\ g \in DOMAIN F /\ g \in E
    BY DEF Change, Tree, Moved
  <1>2. plan.old[g] = Range(c)
    <2>1. Parent(T, g) = F[g]
      BY <1>1, ParentIsRead
    <2>2. g \in DOMAIN Dependency(T, posted)
      BY MovedAre
    <2> QED
      BY <2>1, <2>2 DEF EditPlan
  <1>3. Lists(T, F[g], c)
    <2>1. PICK N \in Nat : Sound(F, T, N)
      BY DEF Change
    <2> QED
      BY <2>1, ChainIs
  <1>4. \A d : d \in DownOf(plan, g) <=> \E j : Under(T, E, g, d, j)
    BY DownIs
  <1> HIDE DEF c, plan, E
  <1>5. \A a : a \in Range(c) <=> \E n \in Nat : Row(a, F[g], n) \in T
    <2>1. /\ Len(c) \in Nat /\ DOMAIN c = 1..Len(c)
          /\ \A a : \A n \in Nat : Row(a, F[g], n) \in T <=> n < Len(c) /\ a = c[Len(c) - n]
      BY <1>3, LenProperties DEF Lists
    <2>2. ASSUME NEW a \in Range(c) PROVE \E n \in Nat : Row(a, F[g], n) \in T
      <3>1. PICK i \in 1..Len(c) : a = c[i]
        BY <2>1 DEF Range
      <3>2. Len(c) - i \in Nat /\ Len(c) - i < Len(c) /\ Len(c) - (Len(c) - i) = i
        BY <2>1
      <3> QED
        BY <2>1, <3>1, <3>2
    <2>3. ASSUME NEW a, NEW n \in Nat, Row(a, F[g], n) \in T PROVE a \in Range(c)
      <3>1. Len(c) - n \in 1..Len(c) /\ a = c[Len(c) - n]
        BY <2>1, <2>3
      <3> QED
        BY <2>1, <3>1 DEF Range
    <2> QED
      BY <2>2, <2>3
  <1>6. \A a, d, n : Row(a, d, n) \in OldRows(T, plan, g) <=>
          Row(a, d, n) \in T /\ a \in Range(c) /\ d \in DownOf(plan, g)
    BY <1>2, RowFields DEF OldRows
  <1>7. ASSUME NEW a, NEW d, NEW n, Row(a, d, n) \in T, a \in Range(c), NEW j,
               Under(T, E, g, d, j)
        PROVE  n > j
    <2>1. n \in Nat /\ j \in Nat /\ Row(g, d, j) \in T
      BY <1>1, <1>7, InTable DEF Under
    <2>2. PICK m \in Nat : Row(a, F[g], m) \in T
      BY <1>5, <1>7
    <2>3. Row(a, g, m + 1) \in T /\ m + 1 \in Nat
      BY <1>1, <2>2, OneUp
    <2>4. ASSUME n <= j PROVE FALSE
      <3> DEFINE x == m + 1
                 y == j - n
      <3>1. Row(g, a, y) \in T /\ y \in Nat
        BY <1>1, <1>7, <2>1, <2>4, AboveOneLine
      <3>2. Row(a, g, x) \in T /\ x \in Nat /\ x # 0
        BY <2>3
      <3> HIDE DEF x, y
      <3>3. Row(a, a, x + y) \in T /\ x + y \in Nat
        BY <1>1, <3>1, <3>2, PathsCompose
      <3>4. x + y = 0
        BY <1>1, <3>3 DEF Tree
      <3> QED
        BY <3>1, <3>2, <3>4
    <2> QED
      BY <2>1, <2>4
  <1>8. ASSUME NEW a, NEW d, NEW n, Row(a, d, n) \in T, NEW j, Under(T, E, g, d, j), n > j
        PROVE  a \in Range(c)
    <2>1. n \in Nat /\ j \in Nat /\ Row(g, d, j) \in T
      BY <1>1, <1>8, InTable DEF Under
    <2>2. j <= n
      BY <1>8, <2>1
    <2>3. Row(a, g, n - j) \in T
      BY <1>1, <1>8, <2>1, <2>2, AboveOneLine
    <2> DEFINE k == n - j - 1
    <2>4. k \in Nat /\ n - j = k + 1
      BY <1>8, <2>1
    <2> HIDE DEF k
    <2>5. Row(a, F[g], k) \in T
      BY <1>1, <2>3, <2>4, OneUp
    <2> QED
      BY <1>5, <2>4, <2>5
  <1>9. \A a, d, n : Row(a, d, n) \in OldRows(T, plan, g) <=>
          Row(a, d, n) \in T /\ \E j : Under(T, E, g, d, j) /\ n > j
    BY <1>4, <1>6, <1>7, <1>8
  <1> QED
    BY <1>9 DEF plan, E

\* What is left of the old paths of a moved tree is deleted: either it has fewer
\* new ancestors than old ones, or each old path has a new one of its length.
LEMMA NotFewer ==
  ASSUME NEW F, NEW T, NEW H, NEW U, NEW posted, Change(F, T, H, U, posted),
         ~ Tangled(EditPlan(T, posted)), Orders(Dependency(T, posted)) # {},
         NEW g \in Moved(F, H)
  PROVE  LET plan == EditPlan(T, posted)
         IN  /\ IsFiniteSet(TargetsOf(plan, g))
             /\ \/ Cardinality(plan.old[g]) > Len(plan.new[g])
                \/ Cardinality(OldRows(T, plan, g)) <= Cardinality(TargetsOf(plan, g))
  <1> DEFINE E == Moved(F, H)
             plan == EditPlan(T, posted)
             c == Chain(T, F[g])
             up == plan.new[g]
             O == OldRows(T, plan, g)
             N == TargetsOf(plan, g)
  <1>1. /\ Tree(T, F) /\ Faithful(T, F) /\ Faithful(U, H) /\ DOMAIN H = DOMAIN F
        /\ g \in DOMAIN F /\ IsFiniteSet(DOMAIN F)
    BY DEF Change, Tree, Moved
  <1>2. plan.old[g] = Range(c)
    <2>1. Parent(T, g) = F[g]
      BY <1>1, ParentIsRead
    <2>2. g \in DOMAIN Dependency(T, posted)
      BY MovedAre
    <2> QED
      BY <2>1, <2>2 DEF EditPlan
  <1>3. /\ Len(c) \in Nat /\ c \in Seq(Range(c))
        /\ \A a : \A n \in Nat : Row(a, F[g], n) \in T <=> n < Len(c) /\ a = c[Len(c) - n]
    <2>1. PICK M \in Nat : Sound(F, T, M)
      BY DEF Change
    <2>2. Lists(T, F[g], c)
      BY <2>1, ChainIs
    <2> QED
      BY <2>2 DEF Lists
  <1>4. /\ Len(up) \in Nat
        /\ \A a : \A n \in Nat : Row(a, H[g], n) \in U <=> n < Len(up) /\ a = up[Len(up) - n]
    <2>1. up = NewAncestors(T, posted, Dependency(T, posted))[g]
      BY DEF EditPlan
    <2>2. Lists(U, H[g], up)
      BY <2>1, NewAncestorsAre
    <2> HIDE DEF up
    <2> QED
      BY <2>2 DEF Lists
  <1>5. \A a, d, n : Row(a, d, n) \in N <=>
          Row(a, d, n) \in U /\ \E j : Under(T, E, g, d, j) /\ n > j
    BY TargetsAre
  <1>6. \A a, d, n : Row(a, d, n) \in O <=>
          Row(a, d, n) \in T /\ \E j : Under(T, E, g, d, j) /\ n > j
    BY OldRowsAre
  <1>7. IsFiniteSet(N)
    <2>1. PICK M \in Nat : Sound(H, U, M)
      BY DEF Change
    <2>2. IsFiniteSet(U)
      BY <1>1, <2>1, TableIsFinite
    <2>3. N \subseteq U
      BY TargetsAre
    <2> QED
      BY <2>2, <2>3, FS_Subset
  <1>8. O \subseteq T /\ \A r \in T : r = Row(r.anc, r.desc, r.depth) /\ r.depth \in Nat
    <2>1. T \subseteq [anc : DOMAIN F, desc : DOMAIN F, depth : Nat]
      BY <1>1 DEF Faithful
    <2> QED
      BY <2>1, RowOf DEF OldRows
  <1>9. Cardinality(Range(c)) = Len(c)
    <2> DEFINE L == Len(c)
    <2>1. L \in Nat /\ DOMAIN c = 1..L /\ c \in [1..L -> Range(c)]
      BY <1>3, LenProperties
    <2> HIDE DEF c
    <2>2. ASSUME NEW i \in 1..L, NEW j \in 1..L, c[i] = c[j] PROVE i = j
      <3> DEFINE x == L - i
                 y == L - j
      <3>1. x \in Nat /\ y \in Nat /\ x < L /\ y < L /\ L - x = i /\ L - y = j
        BY <2>1
      <3> HIDE DEF x, y
      <3>2. Row(c[i], F[g], x) \in T /\ Row(c[i], F[g], y) \in T
        BY <1>3, <2>2, <3>1
      <3>3. x = y
        BY <1>1, <3>1, <3>2, OneDistance
      <3> QED
        BY <3>1, <3>3
    <2>3. c \in Bijection(1..L, Range(c))
      <3>1. \A x \in Range(c) : \E i \in 1..L : c[i] = x
        BY <2>1 DEF Range
      <3> HIDE DEF L
      <3> QED
        BY <2>1, <2>2, <3>1 DEF Bijection, Injection, IsInjective, Surjection
    <2>4. IsFiniteSet(1..L) /\ Cardinality(1..L) = L
      <3>1. 1 \in Int /\ L \in Int
        BY <2>1
      <3>2. IsFiniteSet(1..L) /\ Cardinality(1..L) = IF 1 > L THEN 0 ELSE L - 1 + 1
        BY <3>1, FS_Interval
      <3> QED
        BY <2>1, <3>1, <3>2
    <2> HIDE DEF L
    <2> QED
      BY <2>3, <2>4, FS_Bijection DEF L, ExistsBijection
  <1> HIDE DEF c, plan, E, up, O, N
  <1>10. ASSUME Len(c) <= Len(up), NEW r \in O
         PROVE  \E t \in N : t.desc = r.desc /\ t.depth = r.depth
    <2> DEFINE a == r.anc
               d == r.desc
               n == r.depth
    <2>1. r = Row(a, d, n) /\ n \in Nat /\ Row(a, d, n) \in T
      BY <1>8
    <2> HIDE DEF a, d, n
    <2>2. PICK j : Under(T, E, g, d, j) /\ n > j
      BY <1>6, <2>1
    <2>3. j \in Nat /\ Row(g, d, j) \in T /\ d \in DOMAIN F
      BY <1>1, <2>2, InTable DEF Under
    <2> DEFINE k == n - j - 1
    <2>4. k \in Nat /\ n - j = k + 1 /\ n = j + (k + 1) /\ j <= n /\ k + 1 \in Nat
      BY <2>1, <2>2, <2>3
    <2> HIDE DEF k
    <2>5. Row(a, g, n - j) \in T
      BY <1>1, <2>1, <2>3, <2>4, AboveOneLine
    <2>6. Row(a, F[g], k) \in T
      BY <1>1, <2>4, <2>5, OneUp
    <2>7. k < Len(up)
      BY <1>3, <1>4, <1>10, <2>4, <2>6
    <2> DEFINE b == up[Len(up) - k]
    <2>8. Row(b, H[g], k) \in U
      BY <1>4, <2>4, <2>7
    <2> HIDE DEF b
    <2>9. Row(b, g, k + 1) \in U
      BY <1>1, <2>4, <2>8, OneUp
    <2>10. Row(b, d, j + (k + 1)) \in U
      <3>1. \A m \in Nat : Row(b, d, j + m) \in U <=> Row(b, g, m) \in U
        BY <1>1, <2>2, <2>3, MovedPaths DEF E
      <3> QED
        BY <2>4, <2>9, <3>1
    <2>11. Row(b, d, n) \in N
      BY <1>5, <2>2, <2>4, <2>10
    <2>12. Row(b, d, n).desc = d /\ Row(b, d, n).depth = n
      BY RowFields
    <2> QED
      BY <2>11, <2>12 DEF d, n
  <1>11. ASSUME Len(c) <= Len(up) PROVE Cardinality(O) <= Cardinality(N)
    <2> DEFINE f == [r \in O |-> CHOOSE t \in N : t.desc = r.desc /\ t.depth = r.depth]
    <2>1. \A r \in O : f[r] \in N /\ f[r].desc = r.desc /\ f[r].depth = r.depth
      BY <1>10, <1>11
    <2>2. f \in [O -> N]
      BY <2>1
    <2> HIDE DEF f
    <2>3. ASSUME NEW q \in O, NEW r \in O, f[q] = f[r] PROVE q = r
      <3>1. q.desc = r.desc /\ q.depth = r.depth
        BY <2>1, <2>3
      <3>2. /\ q = Row(q.anc, q.desc, q.depth) /\ r = Row(r.anc, q.desc, q.depth)
            /\ q \in T /\ r \in T /\ q.depth \in Nat
        BY <1>8, <3>1
      <3>3. q.anc = r.anc
        BY <1>1, <3>2, OneAtEachDistance
      <3> QED
        BY <3>2, <3>3
    <2>4. f \in Injection(O, N)
      BY <2>2, <2>3 DEF Injection, IsInjective
    <2> QED
      BY <1>7, <2>4, FS_Injection
  <1>12. Cardinality(plan.old[g]) > Len(up) \/ Cardinality(O) <= Cardinality(N)
    <2>1. Cardinality(plan.old[g]) = Len(c) /\ Len(c) \in Nat
      BY <1>2, <1>3, <1>9
    <2>2. CASE Len(c) <= Len(up)
      BY <1>11, <2>2
    <2>3. CASE Len(c) > Len(up)
      BY <2>1, <2>3
    <2> QED
      BY <1>4, <2>1, <2>2, <2>3
  <1> QED
    BY <1>7, <1>12 DEF N, O, up, plan

\* A plan that is not tangled can be written as it is.
LEMMA PlanIsFit ==
  ASSUME NEW F, NEW T, NEW H, NEW U, NEW posted, Change(F, T, H, U, posted),
         ~ Tangled(EditPlan(T, posted)), Orders(Dependency(T, posted)) # {}
  PROVE  PlanFits(T, EditPlan(T, posted), Moved(F, H))
  <1> DEFINE E == Moved(F, H)
             plan == EditPlan(T, posted)
             dep == Dependency(T, posted)
             s == plan.order
  <1>1. /\ Tree(T, F) /\ Faithful(T, F) /\ Faithful(U, H) /\ IsFiniteSet(DOMAIN F)
    BY DEF Change, Tree
  <1>2. IsFiniteSet(T)
    <2>1. PICK M \in Nat : Sound(F, T, M)
      BY DEF Change
    <2> QED
      BY <1>1, <2>1, TableIsFinite
  <1>3. DOMAIN dep = E /\ IsFiniteSet(E) /\ Root \notin E
    BY MovedAre
  <1>4. s \in Orders(dep)
    <2>1. s = CHOOSE x \in Orders(dep) : TRUE
      BY DEF EditPlan
    <2> QED
      BY <2>1
  <1>5. /\ Len(s) \in Nat
        /\ \A i \in 1..Len(s) : s[i] \in E
        /\ \A i, j \in 1..Len(s) : s[i] = s[j] => i = j
        /\ \A g \in E : \E i \in 1..Len(s) : s[i] = g
    <2> DEFINE n == Cardinality(DOMAIN dep)
    <2> HIDE DEF dep, s
    <2>1. /\ n \in Nat /\ s \in [1..n -> DOMAIN dep]
          /\ \A i, j \in 1..n : s[i] = s[j] => i = j
          /\ \A g \in DOMAIN dep : \E i \in 1..n : s[i] = g
      BY <1>3, <1>4, OrderIs
    <2> HIDE DEF n
    <2>2. Len(s) = n
      <3>1. s \in Seq(DOMAIN dep)
        BY <2>1
      <3>2. Len(s) \in Nat /\ 1..Len(s) = 1..n
        BY <2>1, <3>1, LenProperties
      <3> QED
        BY <2>1, <3>2
    <2> QED
      BY <1>3, <2>1, <2>2
  <1>6. ASSUME NEW g \in E PROVE Replaces(T, plan, g)
    <2>1. /\ IsFiniteSet(TargetsOf(plan, g))
          /\ \/ Cardinality(plan.old[g]) > Len(plan.new[g])
             \/ Cardinality(OldRows(T, plan, g)) <= Cardinality(TargetsOf(plan, g))
      BY NotFewer
    <2>2. ASSUME NEW r \in TargetsOf(plan, g), r \in T PROVE r \in OldRows(T, plan, g)
      <3>1. \A a, d, n : Row(a, d, n) \in TargetsOf(plan, g) <=>
              Row(a, d, n) \in U /\ \E j : Under(T, E, g, d, j) /\ n > j
        BY TargetsAre
      <3>2. \A a, d, n : Row(a, d, n) \in OldRows(T, plan, g) <=>
              Row(a, d, n) \in T /\ \E j : Under(T, E, g, d, j) /\ n > j
        BY OldRowsAre
      <3>3. r = Row(r.anc, r.desc, r.depth)
        <4>1. T \subseteq [anc : DOMAIN F, desc : DOMAIN F, depth : Nat]
          BY <1>1 DEF Faithful
        <4> QED
          BY <2>2, <4>1, RowOf
      <3> HIDE DEF plan, E
      <3> QED
        BY <2>2, <3>1, <3>2, <3>3
    <2> HIDE DEF plan
    <2> QED
      BY <2>1, <2>2 DEF Replaces
  <1>7. ASSUME NEW g \in E, NEW h \in E, g # h PROVE DownOf(plan, g) \cap DownOf(plan, h) = {}
    <2> SUFFICES ASSUME NEW d, d \in DownOf(plan, g), d \in DownOf(plan, h) PROVE FALSE
      OBVIOUS
    <2>1. PICK i : Under(T, E, g, d, i)
      BY DownIs
    <2>2. PICK j : Under(T, E, h, d, j)
      BY DownIs
    <2>3. g = h
      BY <1>1, <2>1, <2>2, NearestIsOne
    <2> QED
      BY <1>7, <2>3
  <1> HIDE DEF plan, E
  <1>8. PlanFits(T, plan, E)
    BY <1>2, <1>3, <1>5, <1>6, <1>7 DEF PlanFits, s
  <1> QED
    BY <1>8 DEF plan, E

\* Replacing the rows of all the trees gives the table of the new hierarchy.
LEMMA AllReplacedIs ==
  ASSUME NEW F, NEW T, NEW H, NEW U, NEW posted, Change(F, T, H, U, posted),
         ~ Tangled(EditPlan(T, posted)), Orders(Dependency(T, posted)) # {}
  PROVE  AllReplaced(T, EditPlan(T, posted), Moved(F, H)) = U
  <1> DEFINE E == Moved(F, H)
             plan == EditPlan(T, posted)
             X == AllReplaced(T, plan, E)
  <1>1. /\ Faithful(T, F) /\ Faithful(U, H) /\ DOMAIN H = DOMAIN F
    BY DEF Change, Tree
  <1>2. \A r : r \in T \cup U => r = Row(r.anc, r.desc, r.depth)
    <2>1. /\ T \subseteq [anc : DOMAIN F, desc : DOMAIN F, depth : Nat]
          /\ U \subseteq [anc : DOMAIN H, desc : DOMAIN H, depth : Nat]
      BY <1>1 DEF Faithful
    <2> QED
      BY <2>1, RowOf
  <1>3. \A g \in E : \A a, d, n : Row(a, d, n) \in TargetsOf(plan, g) <=>
          Row(a, d, n) \in U /\ \E j : Under(T, E, g, d, j) /\ n > j
    BY TargetsAre
  <1>4. \A g \in E : \A a, d, n : Row(a, d, n) \in OldRows(T, plan, g) <=>
          Row(a, d, n) \in T /\ \E j : Under(T, E, g, d, j) /\ n > j
    BY OldRowsAre
  <1>5. \A g \in E : TargetsOf(plan, g) \subseteq U
    BY TargetsAre
  <1>6. \A r : r \in X <=> \/ r \in T /\ \A g \in E : r \notin OldRows(T, plan, g)
                           \/ \E g \in E : r \in TargetsOf(plan, g)
    BY DEF AllReplaced
  <1>7. X \subseteq T \cup U
    BY <1>5, <1>6
  <1>8. ASSUME NEW a, NEW d, NEW n PROVE Row(a, d, n) \in X <=> Row(a, d, n) \in U
    <2> DEFINE r == Row(a, d, n)
    <2>1. CASE r \notin T \cup U
      BY <1>7, <2>1
    <2>2. CASE r \in T \cup U
      <3>1. d \in DOMAIN F /\ n \in Nat
        BY <1>1, <2>2, InTable
      <3>2. CASE Still(T, E, d)
        <4>1. r \in U <=> r \in T
          BY <1>1, <3>1, <3>2, StillPaths
        <4>2. \A g \in E : \A j : ~ Under(T, E, g, d, j)
          BY <3>2 DEF Still, Under
        <4> HIDE DEF plan, E, X
        <4> QED
          BY <1>3, <1>4, <1>6, <4>1, <4>2
      <3>3. CASE ~ Still(T, E, d)
        <4>1. PICK g \in E, j \in Nat : Under(T, E, g, d, j)
          BY <3>3, NearestExists
        <4>2. \A h \in E : \A i : Under(T, E, h, d, i) => h = g /\ i = j
          BY <1>1, <4>1, NearestIsOne
        <4>3. n <= j => (r \in U <=> r \in T)
          <5>1. \A m \in 0..j : Row(a, d, m) \in U <=> Row(a, d, m) \in T
            BY <1>1, <3>1, <4>1, MovedPaths
          <5> QED
            BY <3>1, <4>1, <5>1
        <4>4. n <= j <=> ~ (n > j)
          BY <3>1, <4>1
        <4> HIDE DEF plan, E, X
        <4>5. CASE n <= j
          <5>1. \A h \in E : r \notin OldRows(T, plan, h) /\ r \notin TargetsOf(plan, h)
            BY <1>3, <1>4, <4>2, <4>4, <4>5
          <5> QED
            BY <1>6, <4>3, <4>5, <5>1
        <4>6. CASE n > j
          <5>1. r \in T => r \in OldRows(T, plan, g)
            BY <1>4, <4>1, <4>6
          <5>2. r \in TargetsOf(plan, g) <=> r \in U
            BY <1>3, <4>1, <4>6
          <5> QED
            BY <1>5, <1>6, <4>1, <5>1, <5>2
        <4> QED
          BY <4>4, <4>5, <4>6
      <3> QED
        BY <3>2, <3>3
    <2> QED
      BY <2>1, <2>2
  <1> HIDE DEF X
  <1>9. \A x : x \in X <=> x \in U
    <2> SUFFICES ASSUME NEW x PROVE x \in X <=> x \in U
      OBVIOUS
    <2>1. x \in X \cup U => x = Row(x.anc, x.desc, x.depth)
      BY <1>2, <1>7
    <2> QED
      BY <1>8, <2>1
  <1> QED
    BY <1>9 DEF X

\* Counted, the rows that are left are the rows of U, one each.
LEMMA RowsLeftAre ==
  ASSUME NEW tx, NEW U, Holds(tx, U)
  PROVE  RowsLeft(tx) = SetToBag(U)
  <1> DEFINE left == DOMAIN tx.rows \ Range(tx.doomed)
             at(row) == {k \in left : tx.rows[k] = row}
             S == {tx.rows[k] : k \in left}
  <1>1. /\ \A k \in left : tx.rows[k] \in U
        /\ \A k, l \in left : tx.rows[k] = tx.rows[l] => k = l
        /\ \A r \in U : \E k \in left : tx.rows[k] = r
    BY DEF Holds, Live
  <1>2. RowsLeft(tx) = [row \in S |-> Cardinality(at(row))]
    BY DEF RowsLeft
  <1> HIDE DEF left
  <1>3. S = U
    BY <1>1
  <1>4. ASSUME NEW row \in U PROVE Cardinality(at(row)) = 1
    <2>1. PICK k \in left : tx.rows[k] = row
      BY <1>1
    <2>2. at(row) = {k}
      BY <1>1, <2>1
    <2> HIDE DEF at
    <2> QED
      BY <2>2, FS_Singleton
  <1> HIDE DEF S, at
  <1> QED
    BY <1>2, <1>3, <1>4 DEF SetToBag

\* Written to the table, a plan that is not tangled leaves just the paths of the
\* new hierarchy.
LEMMA UpdateWritten ==
  ASSUME NEW F, NEW T, NEW H, NEW U, NEW posted, Change(F, T, H, U, posted),
         ~ Tangled(EditPlan(T, posted)), Orders(Dependency(T, posted)) # {}
  PROVE  RowsLeft(ApplyPlan(T, EditPlan(T, posted))) = SetToBag(U)
  <1> DEFINE plan == EditPlan(T, posted)
             E == Moved(F, H)
  <1>1. PlanFits(T, plan, E)
    BY PlanIsFit
  <1>2. AllReplaced(T, plan, E) = U
    BY AllReplacedIs
  <1> HIDE DEF plan, E
  <1>3. Holds(ApplyPlan(T, plan), U)
    BY <1>1, <1>2, PlanWritten
  <1>4. RowsLeft(ApplyPlan(T, plan)) = SetToBag(U)
    BY <1>3, RowsLeftAre
  <1> QED
    BY <1>4 DEF plan

\* An update that was judged as it is written, with a plan that is not tangled,
\* leaves the table exact.
LEMMA UpdateKeepsExact ==
  ASSUME FormsetInv, Exact, NEW w \in Workers, Update(w),
         Checked(req[w]), ~ Tangled(req[w].plan)
  PROVE  Exact'
  <1> DEFINE F == forest
             T == Table
             posted == req[w].posted
             plan == req[w].plan
             H == forest'
             U == PathsOf(H)
  <1>1. Acyclic(F) /\ T = PathsOf(F)
    BY TableIsExact DEF Exact
  <1>2. IsFiniteSet(DOMAIN F) /\ Root \notin DOMAIN F /\ DOMAIN F = Groups
    BY GroupsAreNumbered DEF FormsetInv, Groups
  <1>3. Validated(T, Groups, posted) /\ Orders(Dependency(T, posted)) # {} /\ plan = EditPlan(T, posted)
    <2>1. RequestInv(req[w], Table, Groups) /\ req[w].phase = "planned"
      BY DEF FormsetInv, Update
    <2>2. Planned(T, posted, plan)
      BY <2>1 DEF RequestInv
    <2>3. GroupsIn(T) = Groups
      BY GroupsAreIn DEF FormsetInv
    <2> QED
      BY <2>2, <2>3 DEF Planned
  <1>4. /\ closure' = RowsLeft(ApplyPlan(T, plan))
        /\ H = [g \in Groups |-> IF g \in DOMAIN plan.new THEN posted[g] ELSE F[g]]
    BY DEF Update, Commit
  <1>5. /\ DOMAIN posted \subseteq DOMAIN F
        /\ \A g \in DOMAIN posted : OutsideItself(T, g, posted[g])
        /\ Acyclic(Asked(T, Groups, posted))
    BY <1>2, <1>3 DEF Validated
  <1> HIDE DEF F, T, posted, plan, H, U
  <1>6. Tree(T, F) /\ Faithful(T, F) /\ \E N \in Nat : Sound(F, T, N)
    BY <1>1, <1>2, AcyclicIsTree, PathsAreSound DEF Tree
  <1>7. \A g \in DOMAIN F : Parent(T, g) = F[g]
    BY <1>6, ParentIsRead
  <1>8. DOMAIN plan.new = {g \in DOMAIN posted : posted[g] # F[g]}
    <2>1. EditTrees(T, posted) = {g \in DOMAIN posted : posted[g] # F[g]}
      BY <1>5, <1>6, OnlyMovedTreesAreEdited
    <2>2. DOMAIN Dependency(T, posted) = EditTrees(T, posted)
      BY DEF Dependency
    <2>3. plan.new = NewAncestors(T, posted, Dependency(T, posted))
      BY <1>3 DEF EditPlan
    <2>4. DOMAIN plan.new = DOMAIN Dependency(T, posted)
      <3> DEFINE dep == Dependency(T, posted)
      <3>1. /\ IsFiniteSet(DOMAIN dep) /\ Root \notin DOMAIN dep
            /\ \E s : s \in Orders(dep)
        <4>1. DOMAIN dep \subseteq DOMAIN F
          BY <1>5, <2>1, <2>2
        <4> QED
          BY <1>2, <1>3, <4>1, FS_Subset
      <3>2. \A g \in DOMAIN dep : dep[g] \in DOMAIN dep \cup {Root}
        BY <1>6, <2>2, DependencyIs
      <3> QED
        BY <2>3, <3>1, <3>2, NewAncestorsIs
    <2> QED
      BY <2>1, <2>2, <2>4
  <1>9. DOMAIN H = DOMAIN F /\ \A g \in DOMAIN F : H[g] = IF g \in DOMAIN posted THEN posted[g] ELSE F[g]
    <2>1. DOMAIN H = DOMAIN F /\ \A g \in DOMAIN F : H[g] = IF g \in DOMAIN plan.new THEN posted[g] ELSE F[g]
      BY <1>2, <1>4
    <2> QED
      BY <1>8, <2>1
  <1>10. Acyclic(H)
    <2>1. H = Asked(T, Groups, posted)
      <3>1. H = [g \in Groups |-> H[g]]
        BY <1>4
      <3>2. Asked(T, Groups, posted) = [g \in Groups |-> H[g]]
        BY <1>2, <1>7, <1>9 DEF Asked
      <3> QED
        BY <3>1, <3>2
    <2> QED
      BY <1>5, <2>1
  <1>11. Faithful(U, H) /\ \E N \in Nat : Sound(H, U, N)
    <2>1. IsFiniteSet(DOMAIN H) /\ Root \notin DOMAIN H
      BY <1>2, <1>9
    <2> QED
      BY <1>10, <2>1, PathsAreFaithful, PathsAreSound DEF U
  <1>12. ASSUME NEW g \in DOMAIN posted, NEW n \in Nat, Row(g, posted[g], n) \in T
         PROVE  FALSE
    <2>1. posted[g] \in Members(T, g)
      <3>1. Row(g, posted[g], n).anc = g /\ Row(g, posted[g], n).desc = posted[g]
        BY RowFields
      <3>2. Row(g, posted[g], n) \in Subtree(T, g)
        BY <1>12, <3>1 DEF Subtree
      <3> QED
        BY <3>1, <3>2 DEF Members
    <2> QED
      BY <1>5, <2>1 DEF OutsideItself
  <1>13. Change(F, T, H, U, posted)
    BY <1>2, <1>5, <1>6, <1>9, <1>11, <1>12 DEF Change
  <1>14. closure' = SetToBag(U)
    BY <1>3, <1>4, <1>13, UpdateWritten DEF plan
  <1> QED
    BY <1>10, <1>14 DEF Exact, H, U

\* The first step after which the table differs from the hierarchy that the
\* clients asked for, or that hierarchy has a cycle, is the end of an update
\* that another transaction has overtaken, of one whose forms carry the IDs of
\* other groups, or of one whose plan is tangled (GenericUserGroupFormset.update).
\* All the other updates leave every path in the table, once and with its length,
\* whatever they move.
THEOREM OtherUpdatesKeepTheTable == Spec => OnlyUncheckedOrTangledBreaks
  <1>1. ASSUME FormsetInv, [Next]_vars,
               [~ Exact' => \E w \in Workers : Update(w)]_vars, vars' # vars, ~ Exact'
        PROVE  \E w \in Workers : /\ req[w].phase = "planned" /\ req'[w] = Idle
                                  /\ ~ Checked(req[w]) \/ Tangled(req[w].plan)
    <2>1. PICK w \in Workers : Update(w)
      BY <1>1
    <2>2. Exact
      BY <1>1 DEF Next
    <2>3. ~ Checked(req[w]) \/ Tangled(req[w].plan)
      <3> SUFFICES ASSUME Checked(req[w]), ~ Tangled(req[w].plan) PROVE FALSE
        OBVIOUS
      <3>1. Exact'
        BY <1>1, <2>1, <2>2, UpdateKeepsExact
      <3> QED
        BY <1>1, <3>1
    <2>4. req[w].phase = "planned" /\ req'[w] = Idle
      BY <2>1 DEF Update, Commit
    <2> QED
      BY <2>3, <2>4
  <1> DEFINE Culprit == \E w \in Workers : /\ req[w].phase = "planned" /\ req'[w] = Idle
                                           /\ ~ Checked(req[w]) \/ Tangled(req[w].plan)
  <1>2. ASSUME FormsetInv, [Next]_vars, [~ Exact' => \E w \in Workers : Update(w)]_vars
        PROVE  [closure' # closure /\ ~ Exact' => Culprit]_vars
    <2>1. vars' # vars /\ ~ Exact' => Culprit
      BY <1>1, <1>2
    <2> HIDE DEF Culprit
    <2> QED
      BY <2>1
  <1> QED
    BY <1>2, FormsetInvariant, OnlyUpdatesBreak, PTL DEF Spec, OnlyUncheckedOrTangledBreaks

=============================================================================
