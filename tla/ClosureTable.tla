---------------------------- MODULE ClosureTable ----------------------------
(***************************************************************************)
(* How ClosureTableFormsetMixin (common/formsets__deprecated.py) keeps a   *)
(* hierarchy of groups in a closure table: one row for every path from an  *)
(* ancestor to a descendant, with its length.  The operators take the set  *)
(* T of the rows that a query finds, and a function posted from the IDs of *)
(* the edited groups to the parents that the client asks for.              *)
(***************************************************************************)
EXTENDS Integers, Sequences, FiniteSets, Bags, FiniteSetsExt, SequencesExt, Functions

Row(a, d, n) == [anc |-> a, desc |-> d, depth |-> n]

\* TreeNodesLoopValidator.ROOT_OF_TREE, the parent of a root; no group has this ID.
Root == 0

-----------------------------------------------------------------------------
(* Queries *)

\* closure_model.get_parents(depth_min = 1, depth_max = 1)
Parent(T, g) ==
  LET up == {r \in T : r.desc = g /\ r.depth = 1}
  IN  IF up = {} THEN Root ELSE (CHOOSE r \in up : TRUE).anc

Subtree(T, g) == {r \in T : r.anc = g}

Members(T, g) == {r.desc : r \in Subtree(T, g)}

\* The ancestors of g from the root down to g itself, order_by(desc, -depth).
Chain(T, g) ==
  LET up == {r \in T : r.desc = g}
  IN  [i \in 1..Cardinality(up) |->
         (CHOOSE r \in up : r.depth = Cardinality(up) - i).anc]

-----------------------------------------------------------------------------
(* Which forms of an update move a tree, and in which order *)

EditTrees(T, posted) == {g \in DOMAIN posted : posted[g] # Parent(T, g)}

\* The tree that must be placed before g: the nearest one above g's new
\* parent, among the trees that the same update moves.
Dependency(T, posted) ==
  LET trees == EditTrees(T, posted)
      found == {r \in T : \E v \in trees :
                  r.desc = posted[v] /\ r.anc \in trees \ {v}}
      above(g) == {r \in found : r.desc = posted[g]}
  IN  [g \in trees |->
         IF above(g) = {} THEN Root
         ELSE (CHOOSE r \in above(g) : \A q \in above(g) : r.depth <= q.depth).anc]

\* Orders in which the loop may place the trees; none, and the loop spins,
\* when the dependencies form a cycle.
Orders(dep) ==
  {s \in SetToSeqs(DOMAIN dep) : \A i, j \in DOMAIN s :
     /\ dep[s[j]] = s[i] => i < j
     /\ dep[s[i]] = Root /\ dep[s[j]] # Root => i < j}

-----------------------------------------------------------------------------
(* What an update has to write for each tree *)

\* New ancestors, from the root to the new parent.
NewAncestors(T, posted, dep) ==
  LET from(m, s) == SelectInSeq(s, LAMBDA a : a = m)
      new[g \in DOMAIN dep] ==
        LET below == Chain(T, posted[g])
        IN  IF dep[g] = Root THEN below
            ELSE new[dep[g]] \o SubSeq(below, from(dep[g], below), Len(below))
  IN  new

\* Bug: subtrees that other edited trees bring or take away stay.
NewDescendantsAll(T, dep, new) == [g \in DOMAIN dep |-> Subtree(T, g)]

\* New descendants: the subtree of g without the trees that another edited
\* tree brings or takes away.
NewDescendants(T, dep, new) ==
  LET brought(g) == {w \in DOMAIN dep : dep[w] = g}
      taken(g) == {w \in Members(T, g) \cap (DOMAIN dep \ {g}) :
                     g \notin Range(new[w])}
  IN  [g \in DOMAIN dep |->
         {r \in Subtree(T, g) :
            \A w \in brought(g) \cup taken(g) : r.desc \notin Members(T, w)}]

\* Everything update() computes before its transaction.  Which of the orders
\* the loop takes depends on the order of dictionaries filled by queries.
EditPlan(T, posted) ==
  LET dep == Dependency(T, posted)
      new == NewAncestors(T, posted, dep)
  IN  [order |-> CHOOSE s \in Orders(dep) : TRUE,
       old |-> [g \in DOMAIN dep |-> Range(Chain(T, Parent(T, g)))],
       new |-> new,
       desc |-> NewDescendants(T, dep, new)]

-----------------------------------------------------------------------------
(* Writing it.  Inside a transaction a row has an identity: tx.rows is a   *)
(* function from the keys of rows to their contents, tx.doomed the         *)
(* sequence of the keys to be deleted at the end.                          *)

\* The rows of a query come in some order.
Listed(S) ==
  LET rest[n \in 0..Cardinality(S)] ==
        IF n = 0 THEN S ELSE rest[n - 1] \ {CHOOSE x \in rest[n - 1] : TRUE}
  IN  [i \in 1..Cardinality(S) |-> CHOOSE x \in rest[i - 1] : TRUE]

\* The paths of tree g are written over the old ones, then over doomed rows,
\* then as new rows; what is left of the old ones is doomed.
ConstructEditPaths(tx, plan, g) ==
  LET up == plan.new[g]
      targets == Listed({Row(up[i], r.desc, Len(up) - i + 1 + r.depth) :
                           i \in DOMAIN up, r \in plan.desc[g]})
      down == {r.desc : r \in plan.desc[g]}
      old == Listed({k \in DOMAIN tx.rows :
                       tx.rows[k].anc \in plan.old[g] /\ tx.rows[k].desc \in down})
      slots == [i \in DOMAIN targets |->
                  IF i <= Len(old) THEN old[i]
                  ELSE IF i - Len(old) <= Len(tx.doomed) THEN tx.doomed[i - Len(old)]
                  ELSE <<targets[i], g>>]
      popped == Max({0, Min({Len(targets) - Len(old), Len(tx.doomed)})})
      writes(k) == {i \in DOMAIN slots : slots[i] = k}
  IN  [rows |-> [k \in DOMAIN tx.rows \cup Range(slots) |->
                   IF writes(k) = {} THEN tx.rows[k] ELSE targets[Max(writes(k))]],
       doomed |-> SubSeq(tx.doomed, popped + 1, Len(tx.doomed)) \o
                  (IF Cardinality(plan.old[g]) > Len(up)
                   THEN SubSeq(old, Len(targets) + 1, Len(old)) ELSE <<>>)]

\* Bug: what is left of the old paths stays in the table.
RowsLeftWithOld(tx) ==
  [row \in Range(tx.rows) |-> Cardinality({k \in DOMAIN tx.rows : tx.rows[k] = row})]

\* All the saves of an update, from the rows T.
ApplyPlan(T, plan) ==
  LET tx[n \in 0..Len(plan.order)] ==
        IF n = 0 THEN [rows |-> [k \in T \X {Root} |-> k[1]], doomed |-> <<>>]
        ELSE ConstructEditPaths(tx[n - 1], plan, plan.order[n])
  IN  tx[Len(plan.order)]

\* clean_deleted_closure_path: one key twice raises ValueError, otherwise
\* the doomed rows are deleted.
DoomedTwice(tx) == ~ IsInjective(tx.doomed)

\* The rows are counted: one path may have been written twice.
RowsLeft(tx) ==
  LET left == DOMAIN tx.rows \ Range(tx.doomed)
  IN  [row \in {tx.rows[k] : k \in left} |-> Cardinality({k \in left : tx.rows[k] = row})]

-----------------------------------------------------------------------------
(* Insertion *)

\* The parent forms[i] asks for among the new ones, 0 when there is none: an
\* existing parent wins.
NewParent(forms, i) == IF forms[i].exist = Root THEN forms[i].new ELSE 0

\* Orders in which get_sorted_insertion_forms may put the forms.
InsertionOrders(forms) ==
  Orders([i \in DOMAIN forms |-> NewParent(forms, i)])

\* GenericUserGroup.save of a new group g under p.
InsertLeaf(T, g, p) ==
  T \cup {Row(g, g, 0)} \cup {Row(r.anc, g, r.depth + 1) : r \in {q \in T : q.desc = p}}

\* The new groups N + 1, N + 2, ... are saved one after the other.
InsertLeaves(T, N, parents) ==
  LET rows[k \in 0..Len(parents)] ==
        IF k = 0 THEN T ELSE InsertLeaf(rows[k - 1], N + k, parents[k])
  IN  rows[Len(parents)]

-----------------------------------------------------------------------------
(* Validators, and the reference.  The validator classes are not in the      *)
(* repository: what they refuse is taken from their names and from the       *)
(* comments where they are constructed.                                      *)

\* ClosureSingleTreeLoopValidator: a tree is not moved into itself.
OutsideItself(T, g, p) == p \notin Members(T, g)

\* The table that parent, a function on the groups, stands for.  It is the
\* reference the table is compared with, and finite for a cyclic parent too.
PathsOf(parent) ==
  LET paths[n \in 0..Cardinality(DOMAIN parent)] ==
        IF n = 0 THEN {Row(g, g, 0) : g \in DOMAIN parent}
        ELSE LET shorter == paths[n - 1]
             IN  shorter \cup {Row(parent[r.anc], r.desc, n) :
                   r \in {q \in shorter : q.depth = n - 1 /\ parent[q.anc] # Root}}
  IN  paths[Cardinality(DOMAIN parent)]

\* No groups are each other's ancestors: from the roots down every group is reached.
Acyclic(parent) ==
  LET reached[n \in 0..Cardinality(DOMAIN parent)] ==
        IF n = 0 THEN {}
        ELSE LET above == reached[n - 1]
             IN  above \cup {g \in DOMAIN parent : parent[g] \in above \cup {Root}}
  IN  reached[Cardinality(DOMAIN parent)] = DOMAIN parent

\* The hierarchy ClosureCrossTreesLoopValidator looks at: the edges (parent, id)
\* of the forms over those of the table.  An id that no group has adds a leaf,
\* which closes no cycle.
EditEdges(T, groups, ids, posted) ==
  [g \in groups |->
     IF g \in Range(ids) THEN posted[CHOOSE f \in DOMAIN ids : ids[f] = g]
     ELSE Parent(T, g)]

\* Bug: only each form is validated.
AcceptsSingleTrees(T, groups, ids, posted) ==
  \A f \in DOMAIN ids : OutsideItself(T, ids[f], posted[f])

\* Validation of an update.  Each form is judged by the id it was posted with:
\* ids[f] for the form that will update group f.
Accepts(T, groups, ids, posted) ==
  /\ \A f \in DOMAIN ids : OutsideItself(T, ids[f], posted[f])
  /\ Acyclic(EditEdges(T, groups, ids, posted))
=============================================================================
