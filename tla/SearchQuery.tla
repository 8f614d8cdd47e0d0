---------------------------- MODULE SearchQuery ----------------------------
(***************************************************************************)
(* How ElasticSearchQuerySet (client_query_django.py) turns conditions     *)
(* written as Q objects of Django into clauses of an Elasticsearch query,  *)
(* and what the one and the other mean.  A document is the set of the      *)
(* fields whose lookup holds for it.                                       *)
(***************************************************************************)
EXTENDS Integers, Sequences

LOCAL INSTANCE SequencesExt

\* A leaf is one lookup of a field, of a type that lookup_map has or has not;
\* a Q object joins others and leaves.  That the clause made of a known lookup
\* finds what the lookup means to Django is assumed, type by type.
Leaf(f, known) == [field |-> f, known |-> known]
Q(connector, negated, children) ==
  [connector |-> connector, negated |-> negated, children |-> children]

IsLeaf(cond) == "field" \in DOMAIN cond

-----------------------------------------------------------------------------
(* The clauses *)

\* {} and [], which the code takes for no clause.
Nothing == [clause |-> "nothing"]

\* _parse_leaf_q
ParseLeaf(cond) ==
  IF cond.known THEN [clause |-> "leaf", field |-> cond.field] ELSE Nothing

\* Bug: all the items are required, whatever joins them.
JoinMust(cond, items) ==
  CASE Len(items) > 1 -> [clause |-> "must", items |-> items]
    [] Len(items) = 1 -> items[1]
    [] items = <<>> -> Nothing

\* The end of _parse_nonleaf_q, which never looks at the negation.
Join(cond, items) ==
  CASE Len(items) > 1 ->
         [clause |-> IF cond.connector = "AND" THEN "must" ELSE "should", items |-> items]
    [] Len(items) = 1 -> items[1]
    [] items = <<>> -> Nothing

\* What yields no clause is left out.
Clauses(items) == SelectSeq(items, LAMBDA item : item # Nothing)

\* _parse_nonleaf_q, and _parse_leaf_q for its children that are leaves.
RECURSIVE Parse(_)
Parse(cond) ==
  IF IsLeaf(cond) THEN ParseLeaf(cond)
  ELSE Join(cond, Clauses([i \in DOMAIN cond.children |-> Parse(cond.children[i])]))

\* parse_filter_args
ParseFilterArgs(conds) == Clauses([i \in DOMAIN conds |-> Parse(conds[i])])

-----------------------------------------------------------------------------
(* What they mean *)

\* The bool query of Elasticsearch.
RECURSIVE Matches(_, _)
Matches(clause, doc) ==
  CASE clause.clause = "leaf" -> clause.field \in doc
    [] clause.clause = "must" -> \A i \in DOMAIN clause.items : Matches(clause.items[i], doc)
    [] clause.clause = "should" -> \E i \in DOMAIN clause.items : Matches(clause.items[i], doc)

\* A search requires all its clauses.
MatchesAll(clauses, doc) == \A i \in DOMAIN clauses : Matches(clauses[i], doc)

\* The reference: what a condition says of a row of a Django model.
RECURSIVE Holds(_, _)
Holds(cond, doc) ==
  IF IsLeaf(cond) THEN cond.field \in doc
  ELSE LET parts == {Holds(cond.children[i], doc) : i \in DOMAIN cond.children}
       IN  (IF cond.connector = "AND" THEN FALSE \notin parts ELSE TRUE \in parts) # cond.negated

\* A condition and all it is made of.
RECURSIVE Parts(_)
Parts(cond) ==
  {cond} \cup IF IsLeaf(cond) THEN {}
             ELSE UNION {Parts(cond.children[i]) : i \in DOMAIN cond.children}

Positive(cond) == \A c \in Parts(cond) : ~ IsLeaf(c) => ~ c.negated
Known(cond) == \A c \in Parts(cond) : IsLeaf(c) => c.known
Conjunctive(cond) == \A c \in Parts(cond) : ~ IsLeaf(c) => c.connector = "AND"
=============================================================================
