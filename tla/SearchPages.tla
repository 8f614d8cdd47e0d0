---------------------------- MODULE SearchPages ----------------------------
(***************************************************************************)
(* client_query_django.py: a page of logged actions is read through        *)
(* ElasticSearchQuerySet, which Django's Paginator takes for one of its    *)
(* own query sets, while clean_old_log_elasticsearch deletes the old       *)
(* documents of the same index, a batch at a time.  What the conditions of *)
(* a search become, and find, is a parameter: see SearchQuery.             *)
(***************************************************************************)
EXTENDS Integers, Sequences, FiniteSets, FiniteSetsExt, SequencesExt

CONSTANTS
  Docs,           \* documents: sets of fields
  Old,            \* those of each index that the job is to delete
  PageSize, ScrollSize,
  Conditions,     \* Q objects of the first call of filter, the second, ...
  Query(_),       \* the clauses that conditions become
  Meets(_, _),    \* does a document meet such clauses
  MaxPage         \* bound: page numbers

\* The keys of _fixture.
Indices == <<"log", "monitoring">>

ASSUME SizesAssumption ==
  /\ Old = [log |-> Old["log"], monitoring |-> Old["monitoring"]]
  /\ IsFiniteSet(Docs) /\ Old["log"] \subseteq Docs /\ IsFiniteSet(Old["monitoring"])
  /\ PageSize \in Nat \ {0} /\ ScrollSize \in Nat \ {0}
  /\ MaxPage \in Nat

VARIABLES
  index,   \* documents of each index
  view,    \* a request: the page asked for, its query set and its Paginator
  job      \* clean_old_log_elasticsearch

vars == <<index, view, job>>

-----------------------------------------------------------------------------
(* The query set *)

Unloaded == [total |-> 0, hits |-> <<"unloaded">>]

\* The page of a request is a string, 1 unless it is there: "padded" is a number
\* that int() reads but isdigit() refuses, "last" the last page, "word" no number.
\* Digits that isdigit() accepts and int() refuses (superscripts) are left out.
Pages == [text : {"digits", "padded"}, n : 0..MaxPage] \cup [text : {"last", "word"}, n : {1}]

\* Bug: pages are counted from 0.
GetLoadRangeFromZero(page) ==
  LET n == IF page.text = "digits" THEN page.n ELSE 1
  IN  [start |-> n * PageSize, end |-> (n + 1) * PageSize]

\* _get_load_range
GetLoadRange(page) ==
  LET n == IF page.text = "digits" THEN page.n ELSE 1
  IN  [start |-> (n - 1) * PageSize, end |-> n * PageSize]

\* _search, of the query that a subclass makes of the range and the clauses.
Search(v) ==
  LET clauses == Query(v.conds)
      found == {d \in index["log"] : Meets(clauses, d)}
      range == GetLoadRange(v.page)
  IN  [total |-> Cardinality(found),
       hits |-> SubSeq(SetToSeq(found), range.start + 1, Min({range.end, Cardinality(found)}))]

\* Bug: nothing is cached.
LoadAgain(v) == Search(v)

\* load
Load(v) == IF v.result = Unloaded THEN Search(v) ELSE v.result

-----------------------------------------------------------------------------
(* A request *)

NoView == [phase |-> "none"]

\* ElasticSearchQuerySet.__init__
Open ==
  /\ view = NoView
  /\ \E page \in Pages :
       view' = [phase |-> "open", page |-> page, conds |-> <<>>, result |-> Unloaded]
  /\ UNCHANGED <<index, job>>

\* filter, which changes the query set and returns it, loaded or not.
Filter ==
  /\ view.phase = "open" /\ Len(view.conds) < Len(Conditions)
  /\ \E cond \in Conditions[Len(view.conds) + 1] : view' = [view EXCEPT !.conds = Append(@, cond)]
  /\ UNCHANGED <<index, job>>

\* count and __len__, called by the view itself; Elasticsearch refuses what
\* page 0 becomes.
Count ==
  /\ view.phase = "open"
  /\ view' = IF GetLoadRange(view.page).start < 0 THEN [phase |-> "refused"]
             ELSE [view EXCEPT !.result = Load(view)]
  /\ UNCHANGED <<index, job>>

\* Paginator.page() takes the count of the query set for a page that is a
\* number, and refuses one that is past the last.
ValidateNumber ==
  LET loaded == Load(view)
      pages == (Max({loaded.total, 1}) + PageSize - 1) \div PageSize
      number == IF view.page.text = "last" THEN pages ELSE view.page.n
  IN  /\ view.phase = "open"
      /\ view' =
           IF view.page.text = "word" \/ view.page.n = 0 \/ number > pages THEN [phase |-> "missing"]
           ELSE [phase |-> "numbered", page |-> view.page, conds |-> view.conds,
                 result |-> loaded, count |-> loaded.total, number |-> number]
      /\ UNCHANGED <<index, job>>

Bottom(v) == (v.number - 1) * PageSize
Top(v) == Min({Bottom(v) + PageSize, v.count})

\* __getitem__, of the slice the Paginator wants, which is to be within the
\* range loaded; filter_path drops a list of hits that is empty.
GetItem ==
  LET loaded == Load(view)
      range == GetLoadRange(view.page)
      fits == range.start = Bottom(view) /\ range.end >= Top(view) /\ loaded.hits # <<>>
      wanted == Min({Top(view) - Bottom(view), Len(loaded.hits)})
  IN  /\ view.phase = "numbered"
      /\ view' = [view EXCEPT !.phase = IF fits THEN "served" ELSE "crashed",
                              !.result = [loaded EXCEPT !.hits = IF fits THEN SubSeq(@, 1, wanted) ELSE @]]
      /\ UNCHANGED <<index, job>>

Respond ==
  /\ view.phase \in {"missing", "refused", "served", "crashed"}
  /\ view' = NoView
  /\ UNCHANGED <<index, job>>

-----------------------------------------------------------------------------
(* clean_old_log_elasticsearch *)

StartJob ==
  /\ job.phase # "running"
  /\ job' = [phase |-> "running", responses |-> <<>>]
  /\ UNCHANGED <<index, view>>

Target == Indices[Len(job.responses) + 1]

\* A request deletes at most ScrollSize of the old documents; one that changes
\* meanwhile is a conflict, with which Elasticsearch proceeds.
Batches ==
  LET old == index[Target] \cap Old[Target]
  IN  kSubset(Min({ScrollSize, Cardinality(old)}), old)

Delete(deleted) == index' = [index EXCEPT ![Target] = @ \ deleted]

\* Go on, or append the response and take the next index.
Turn(more, conflicts) ==
  IF more THEN job
  ELSE LET responses == Append(job.responses, [conflicts |-> conflicts])
       IN  [phase |-> IF Len(responses) < Len(Indices) THEN "running" ELSE "done",
            responses |-> responses]

\* Bug: one batch is taken for all there is.
DeleteByQueryOnce ==
  /\ job.phase = "running"
  /\ \E batch \in Batches : \E deleted \in SUBSET batch :
       /\ Delete(deleted)
       /\ job' = Turn(FALSE, Cardinality(batch \ deleted))
  /\ UNCHANGED view

\* Bug: the loop goes on for any number of documents deleted, 0 among them.
DeleteByQueryAlways ==
  /\ job.phase = "running"
  /\ \E batch \in Batches : \E deleted \in SUBSET batch :
       /\ Delete(deleted)
       /\ job' = Turn(Cardinality(deleted) >= 0, Cardinality(batch \ deleted))
  /\ UNCHANGED view

\* One turn of the loop; one that deletes nothing is the last of its index.
DeleteByQuery ==
  /\ job.phase = "running"
  /\ \E batch \in Batches : \E deleted \in SUBSET batch :
       /\ Delete(deleted)
       /\ job' = Turn(Cardinality(deleted) > 0, Cardinality(batch \ deleted))
  /\ UNCHANGED view

\* The response names failures, or does not come in time: the job raises, and
\* some of the batch may be gone.
DeleteFails ==
  /\ job.phase = "running"
  /\ \E batch \in Batches : \E deleted \in SUBSET batch : Delete(deleted)
  /\ job' = [job EXCEPT !.phase = "failed"]
  /\ UNCHANGED view

\* External: an action is logged.
Log ==
  /\ \E d \in Docs \ (Old["log"] \cup index["log"]) : index' = [index EXCEPT !["log"] = @ \cup {d}]
  /\ UNCHANGED <<view, job>>

-----------------------------------------------------------------------------
Init ==
  /\ index = Old
  /\ view = NoView
  /\ job = [phase |-> "idle", responses |-> <<>>]

View == Open \/ Filter \/ Count \/ ValidateNumber \/ GetItem \/ Respond

Job == StartJob \/ DeleteByQuery \/ DeleteFails

Next == View \/ Job \/ Log

Spec == Init /\ [][Next]_vars

\* Each call of the job is answered: es_client has a timeout.
FairSpec == Spec /\ WF_vars(DeleteByQuery)

-----------------------------------------------------------------------------
(* Properties *)

\* An assertion or a missing key ends a request only where nothing is found,
\* or where the page is not written in digits and is not the first: the
\* Paginator reads such a page, the query set takes it for page 1.
OnlyOddPagesCrash ==
  view.phase = "crashed" =>
    view.count = 0 \/ (view.page.text \in {"padded", "last"} /\ view.number # 1)

\* The count a page is cut by and the documents on it are of one search: the
\* page is full although the job deletes between the two.
PageIsOfOneSearch ==
  view.phase = "served" => Len(view.result.hits) = Top(view) - Bottom(view)

\* A job that is through leaves old documents in an index only where its
\* last batch met conflicts, and says so in its response.
LeftoverOnlyByConflict ==
  job.phase = "done" =>
    \A k \in DOMAIN Indices :
      index[Indices[k]] \cap Old[Indices[k]] # {} => job.responses[k].conflicts > 0

\* The job comes to an end, with or without an exception.
JobEnds == job.phase = "running" ~> job.phase # "running"
=============================================================================
