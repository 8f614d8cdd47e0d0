--------------------------- MODULE MCSearchClient ---------------------------
(***************************************************************************)
(* Four documents, three of them old; pages and batches of two.  The       *)
(* conditions join two leaves, with a lookup that lookup_map has or has    *)
(* not, or a leaf and such a condition; a view filters twice.              *)
(***************************************************************************)
EXTENDS SearchClient

A == Leaf("a", TRUE)
B == Leaf("b", TRUE)
Odd == Leaf("a", FALSE)
Connectors == {"AND", "OR"}

First ==
  {Q("AND", n, <<A>>) : n \in BOOLEAN}
  \cup {Q(c, FALSE, s) : c \in Connectors, s \in {<<A, B>>, <<Odd, B>>, <<Odd, Odd>>}}
  \cup {Q(c, FALSE, <<Odd, Q(d, n, <<A, B>>)>>) : c, d \in Connectors, n \in BOOLEAN}

Conds == <<First, {Q("AND", FALSE, <<B>>)}>>

AllDocs == SUBSET {"a", "b"}
OldDocs == [log |-> {{"a"}, {"b"}, {"a", "b"}}, monitoring |-> {{"a"}}]
=============================================================================
