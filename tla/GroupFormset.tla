---------------------------- MODULE GroupFormset ----------------------------
(***************************************************************************)
(* The group pages of the membership application (views__deprecated.py)    *)
(* with their formset, GenericUserGroupFormset (forms__deprecated.py), as  *)
(* worker processes of the web server that share one database.  A request  *)
(* is validated against the closure table, an update is planned from it,   *)
(* and only then is it written, in a transaction.                          *)
(***************************************************************************)
EXTENDS ClosureTable

CONSTANTS
  Workers,      \* processes that serve requests
  MaxForms,     \* bound: forms of one request, per worker (MAX_NUM_FORM)
  MaxGroups,    \* bound: groups that are ever created
  MaxShared     \* bound: groups, and forms in all, when two requests overlap

ASSUME BoundsAssumption ==
  /\ MaxGroups \in Nat \ {0} /\ MaxShared \in Nat
  /\ MaxForms \in [Workers -> Nat]

VARIABLES
  closure,   \* the closure table, a bag of rows
  req,       \* request of each worker: phase, what was posted, plan
  forest     \* history: the parent of each group, as the committed requests ask

vars == <<closure, req, forest>>

Groups == DOMAIN forest
Table == BagToSet(closure)
Exact == Acyclic(forest) /\ closure = SetToBag(PathsOf(forest))

Idle == [phase |-> "idle"]
Busy(w) == req[w] # Idle

Init ==
  /\ closure = EmptyBag
  /\ forest = <<>>
  /\ req = [w \in Workers |-> Idle]

-----------------------------------------------------------------------------
(* A request begins: the view makes the formset and asks is_valid()         *)

FormsOf(r) == IF r.phase = "idle" THEN {} ELSE DOMAIN r.posted

\* Bounds: a request of n forms begins alone, or beside few forms and few
\* groups; and in a hierarchy whose IDs grow downwards, which every shape has.
MayBegin(w, n) ==
  LET others == UNION {{v} \X FormsOf(req[v]) : v \in Workers \ {w}}
  IN  /\ ~ Busy(w) /\ n <= MaxForms[w]
      /\ \A g \in Groups : forest[g] < g
      /\ \/ others = {}
         \/ Cardinality(Groups) <= MaxShared /\ Cardinality(others) + n <= MaxShared

\* UserGroupsCreateView.post: each form names an existing parent, another
\* form, or neither (bound: one that names both names the first form);
\* TreeNodesLoopValidator refuses a cycle of new groups.
PostNew(w) ==
  /\ \E n \in 1..(MaxGroups - Cardinality(Groups)) :
       /\ MayBegin(w, n)
       /\ \E forms \in [1..n -> [exist : Groups \cup {Root}, new : 0..n]] :
            /\ \A i \in 1..n : /\ forms[i].new # i
                               /\ forms[i].exist # Root => forms[i].new <= 1
            /\ Acyclic([i \in 1..n |-> NewParent(forms, i)])
            /\ req' = [req EXCEPT ![w] =
                         [phase |-> "new", posted |-> forms, stale |-> FALSE]]
  /\ UNCHANGED <<closure, forest>>

\* The IDs that the forms of the groups S may be posted with: distinct numbers,
\* some of them of no group.
Foreign == -1
PostedIds(S) ==
  {ids \in [S -> Groups \cup {Foreign}] :
     \A f, g \in S : ids[f] = ids[g] /\ ids[f] # Foreign => f = g}
OwnIds(S) == [g \in S |-> g]

Accepted(S, posted, mismatched) ==
  IF mismatched
  THEN \E ids \in PostedIds(S) \ {OwnIds(S)} : Accepts(Table, Groups, ids, posted)
  ELSE Accepts(Table, Groups, OwnIds(S), posted)

\* UserGroupsEditView.post: the groups come from the URL, in the order of their
\* IDs, and each has one form with its new parent.  The form also carries an id,
\* which is what the validators read; nothing compares it with the group's.
PostEdit(w) ==
  /\ \E S \in SUBSET Groups \ {{}} :
       /\ MayBegin(w, Cardinality(S))
       /\ \E posted \in [S -> Groups \cup {Root}] :
          \E mismatched \in {m \in BOOLEAN : Accepted(S, posted, m)} :
            req' = [req EXCEPT ![w] = [phase |-> "edit", posted |-> posted, stale |-> FALSE,
                                       mismatched |-> mismatched]]
  /\ UNCHANGED <<closure, forest>>

-----------------------------------------------------------------------------
(* get_sorted_update_forms(), before the transaction                        *)

PlanEdit(w) ==
  /\ req[w].phase = "edit"
  /\ Orders(Dependency(Table, req[w].posted)) # {}
  /\ req' = [req EXCEPT ![w] =
                [phase |-> "planned", posted |-> @.posted, stale |-> @.stale,
                 mismatched |-> @.mismatched, plan |-> EditPlan(Table, @.posted)]]
  /\ UNCHANGED <<closure, forest>>

\* _reorder_edit_tree waits for a tree that waits for this one.
Spin(w) ==
  /\ req[w].phase = "edit"
  /\ Orders(Dependency(Table, req[w].posted)) = {}
  /\ req' = [req EXCEPT ![w].phase = "spinning"]
  /\ UNCHANGED <<closure, forest>>

-----------------------------------------------------------------------------
(* The transactions                                                         *)

\* w's request is over; the others now work from a table that has changed.
Commit(w, rows) ==
  /\ closure' = rows
  /\ req' = [v \in Workers |->
               IF v = w THEN Idle
               ELSE IF Busy(v) /\ rows # closure THEN [req[v] EXCEPT !.stale = TRUE]
               ELSE req[v]]

\* GenericUserGroupFormset.insert: groups get their IDs in the sorted order.
Insert(w) ==
  LET forms == req[w].posted
      s == CHOOSE order \in InsertionOrders(forms) : TRUE
      id(i) == Cardinality(Groups) + (CHOOSE k \in DOMAIN s : s[k] = i)
      parent(i) ==
        IF NewParent(forms, i) = 0 THEN forms[i].exist
        ELSE id(NewParent(forms, i))
      parents == [k \in DOMAIN s |-> parent(s[k])]
  IN  /\ req[w].phase = "new"
      /\ Cardinality(Groups) + Len(forms) <= MaxGroups
      /\ Commit(w, SetToBag(InsertLeaves(Table, Cardinality(Groups), parents)))
      /\ forest' = forest \o parents

\* GenericUserGroupFormset.update
Update(w) ==
  LET tx == ApplyPlan(Table, req[w].plan)
  IN  /\ req[w].phase = "planned" /\ ~ DoomedTwice(tx)
      /\ Commit(w, RowsLeft(tx))
      /\ forest' = [g \in Groups |->
                      IF g \in DOMAIN req[w].plan.new THEN req[w].posted[g] ELSE forest[g]]

\* Any save, the update of the auth group or clean_deleted_closure_path raises.
Rollback(w) ==
  /\ req[w].phase \in {"new", "planned"}
  /\ req' = [req EXCEPT ![w] = Idle]
  /\ UNCHANGED <<closure, forest>>

\* A wrong table is not explored further.
Next ==
  /\ Exact
  /\ \E w \in Workers :
       \/ PostNew(w) \/ PostEdit(w) \/ PlanEdit(w) \/ Spin(w)
       \/ Insert(w) \/ Update(w) \/ Rollback(w)

Spec == Init /\ [][Next]_vars

-----------------------------------------------------------------------------
(* Properties *)

\* The validators saw what the update works on: the rows of the table as they
\* still are, and the groups that it moves.
Checked(r) == ~ r.stale /\ ~ r.mismatched

\* A plan is tangled when a moved tree is written with another moved tree
\* still among its descendants, so that the same paths are written twice.
Tangled(plan) ==
  \E g \in DOMAIN plan.desc :
    \E r \in plan.desc[g] : r.desc # g /\ r.desc \in DOMAIN plan.desc

\* The hierarchy the clients asked for has no cycle, and the table holds every
\* path of it, once and with its length.  Only an update can end that: one that
\* the validators have not judged as it is written (validated or planned before
\* another transaction changed the table, or by other IDs than its groups'), or
\* one whose plan is tangled.  No insertion does, whatever runs beside it.
OnlyUncheckedOrTangledBreaks ==
  [][closure' # closure /\ ~ Exact' =>
       \E w \in Workers : /\ req[w].phase = "planned" /\ req'[w] = Idle
                          /\ ~ Checked(req[w]) \/ Tangled(req[w].plan)]_vars

\* What the validators accept is enough for the reordering loop to end: it
\* spins only for a request that another transaction has overtaken, or whose
\* forms were posted with other IDs than those of the groups they update.
OnlyUncheckedSpins ==
  \A w \in Workers : req[w].phase = "spinning" => ~ Checked(req[w])

\* One or two moved trees are never tangled: it takes a third one, brought
\* between a tree and its former descendant.
TangleTakesThree ==
  \A w \in Workers :
    req[w].phase = "planned" /\ Tangled(req[w].plan) => Cardinality(DOMAIN req[w].plan.new) >= 3
=============================================================================
