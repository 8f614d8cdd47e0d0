---------------------------- MODULE SearchClient ----------------------------
(***************************************************************************)
(* The searches of SearchPages with the queries of SearchQuery.            *)
(***************************************************************************)
EXTENDS SearchPages, SearchQuery

\* What a search finds is what its conditions say, as Django reads them, as
\* long as none is negated and every lookup is one of lookup_map: then the total
\* is the number of rows, and each hit is one.  Lookups the map lacks can only
\* widen a search whose conditions are conjunctions.
FiltersAnswered ==
  [][view.phase = "open" /\ view.result = Unloaded
       /\ view'.phase \in {"open", "numbered"} /\ view'.result # Unloaded =>
     LET conds == {view.conds[i] : i \in DOMAIN view.conds}
         exact == {d \in index["log"] : \A cond \in conds : Holds(cond, d)}
         result == view'.result
     IN  (\A cond \in conds : Positive(cond)) =>
           /\ (\A cond \in conds : Known(cond)) =>
                result.total = Cardinality(exact) /\ ToSet(result.hits) \subseteq exact
           /\ (\A cond \in conds : Conjunctive(cond)) => result.total >= Cardinality(exact)]_vars
=============================================================================
