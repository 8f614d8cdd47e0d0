-------------------------- MODULE SearchPagesProofs -------------------------
(***************************************************************************)
(* Proofs about the Elasticsearch query client, for any documents, any     *)
(* meaning of the conditions, any sizes of pages and batches: a request    *)
(* ends in an error only on a page that is empty or not written in digits  *)
(* (OnlyOddPagesCrash), a page is cut by the count of the search it comes  *)
(* from (PageIsOfOneSearch), and the job that deletes leaves old documents *)
(* only where it reports conflicts (LeftoverOnlyByConflict).               *)
(***************************************************************************)
EXTENDS SearchPages, FiniteSetTheorems, SequenceTheorems, TLAPS

\* Logging adds documents of Docs that are not old.
IndexInv ==
  /\ index = [log |-> index["log"], monitoring |-> index["monitoring"]]
  /\ index["log"] \subseteq Docs /\ IsFiniteSet(index["monitoring"])

\* A page that Elasticsearch accepts: none but 0 begins before the first hit.
NotZero(page) == page.text = "digits" => page.n > 0

\* What a search of the page returns: its hits are those of the range, as far
\* as there are so many.
IsResult(page, r) ==
  /\ r \in [total : Nat, hits : Seq(Docs)]
  /\ LET left == r.total - GetLoadRange(page).start
     IN  Len(r.hits) = IF left <= 0 THEN 0 ELSE IF left <= PageSize THEN left ELSE PageSize

PagesOf(total) == (Max({total, 1}) + PageSize - 1) \div PageSize

\* A query set: loaded or not, the result is that of a search of its page.
OpenInv ==
  view.phase = "open" =>
    /\ view = [phase |-> "open", page |-> view.page, conds |-> view.conds, result |-> view.result]
    /\ view.page \in Pages
    /\ view.result # Unloaded => NotZero(view.page) /\ IsResult(view.page, view.result)

\* A page that the Paginator has validated, by the count of that search.
NumberedInv ==
  view.phase = "numbered" =>
    /\ view = [phase |-> "numbered", page |-> view.page, conds |-> view.conds,
               result |-> view.result, count |-> view.count, number |-> view.number]
    /\ view.page \in Pages /\ view.page.text # "word" /\ view.page.n # 0
    /\ IsResult(view.page, view.result) /\ view.count = view.result.total
    /\ view.number \in 1..PagesOf(view.count)
    /\ view.page.text # "last" => view.number = view.page.n

ViewInv == IndexInv /\ OpenInv /\ NumberedInv /\ OnlyOddPagesCrash /\ PageIsOfOneSearch

-----------------------------------------------------------------------------
(* Numbers *)

LEMMA MinOfTwo ==
  ASSUME NEW a \in Int, NEW b \in Int
  PROVE  Min({a, b}) = IF a <= b THEN a ELSE b
  <1> DEFINE m == IF a <= b THEN a ELSE b
  <1>1. m \in {a, b} /\ \A y \in {a, b} : m <= y
    OBVIOUS
  <1>2. \A x \in {a, b} : (\A y \in {a, b} : x <= y) => x = m
    OBVIOUS
  <1> HIDE DEF m
  <1>3. Min({a, b}) = m
    BY <1>1, <1>2 DEF Min
  <1> QED
    BY <1>3 DEF m

LEMMA MaxOfTwo ==
  ASSUME NEW a \in Int, NEW b \in Int
  PROVE  Max({a, b}) = IF a >= b THEN a ELSE b
  <1> DEFINE m == IF a >= b THEN a ELSE b
  <1>1. m \in {a, b} /\ \A y \in {a, b} : m >= y
    OBVIOUS
  <1>2. \A x \in {a, b} : (\A y \in {a, b} : x >= y) => x = m
    OBVIOUS
  <1> HIDE DEF m
  <1>3. Max({a, b}) = m
    BY <1>1, <1>2 DEF Max
  <1> QED
    BY <1>3 DEF m

\* The last page is there and not empty, unless nothing is found.
LEMMA PagesAre ==
  ASSUME NEW total \in Nat
  PROVE  /\ PagesOf(total) \in Nat /\ PagesOf(total) >= 1
         /\ \A n \in 1..PagesOf(total) :
              (n - 1) * PageSize \in Nat /\ (total > 0 => (n - 1) * PageSize < total)
  <1> DEFINE c == Max({total, 1})
             q == PagesOf(total)
  <1>1. PageSize \in Nat \ {0}
    BY SizesAssumption
  <1>2. c \in Nat /\ c >= 1 /\ (total > 0 => c = total)
    BY MaxOfTwo
  <1>3. q = (c + PageSize - 1) \div PageSize
    BY DEF PagesOf
  <1> HIDE DEF c, q
  <1>4. /\ q \in Int /\ PageSize * q <= c + PageSize - 1
        /\ c + PageSize - 1 < PageSize * q + PageSize
    <2>1. c + PageSize - 1 \in Nat
      BY <1>1, <1>2
    <2> QED
      BY <1>1, <1>3, <2>1
  <1>5. q \in Nat /\ q >= 1
    <2>1. PageSize * q > 0
      BY <1>1, <1>2, <1>4
    <2> QED
      BY <1>1, <1>4, <2>1
  <1>6. ASSUME NEW n \in 1..q
        PROVE  (n - 1) * PageSize \in Nat /\ (total > 0 => (n - 1) * PageSize < total)
    <2>1. n - 1 \in Nat /\ n \in Nat /\ n <= q
      BY <1>5
    <2>2. n * PageSize <= q * PageSize
      BY <1>1, <1>5, <2>1
    <2>3. (n - 1) * PageSize = n * PageSize - PageSize /\ (n - 1) * PageSize \in Nat
      BY <1>1, <2>1
    <2>4. n * PageSize \in Nat /\ q * PageSize = PageSize * q
      BY <1>1, <1>5, <2>1
    <2> QED
      BY <1>1, <1>2, <1>4, <1>5, <2>2, <2>3, <2>4
  <1> QED
    BY <1>5, <1>6 DEF q

\* Where a page begins and ends.
LEMMA RangeIs ==
  ASSUME NEW page \in Pages
  PROVE  LET range == GetLoadRange(page) IN
         /\ range.start \in Int /\ range.end = range.start + PageSize
         /\ NotZero(page) => range.start \in Nat
         /\ ~ NotZero(page) => range.start < 0
         /\ page.text = "digits" => range.start = (page.n - 1) * PageSize
         /\ page.text # "digits" => range.start = 0
  <1> DEFINE n == IF page.text = "digits" THEN page.n ELSE 1
  <1>1. PageSize \in Nat \ {0} /\ n \in Nat
    BY SizesAssumption DEF Pages
  <1>2. NotZero(page) <=> n > 0
    BY <1>1 DEF NotZero, Pages
  <1>3. GetLoadRange(page) = [start |-> (n - 1) * PageSize, end |-> n * PageSize]
    BY DEF GetLoadRange
  <1>4. page.text = "digits" => n = page.n
    OBVIOUS
  <1>5. page.text # "digits" => n = 1
    OBVIOUS
  <1> HIDE DEF n
  <1>6. n > 0 => (n - 1) * PageSize \in Nat
    BY <1>1
  <1>7. ~ (n > 0) => (n - 1) * PageSize = -PageSize
    <2>1. ~ (n > 0) => n = 0
      BY <1>1
    <2>2. (0 - 1) * PageSize = -PageSize
      BY <1>1
    <2> QED
      BY <2>1, <2>2
  <1>8. n * PageSize = (n - 1) * PageSize + PageSize /\ (n - 1) * PageSize \in Int
    BY <1>1
  <1>9. n = 1 => (n - 1) * PageSize = 0
    BY <1>1
  <1> QED
    BY <1>1, <1>2, <1>3, <1>4, <1>5, <1>6, <1>7, <1>8, <1>9

-----------------------------------------------------------------------------
(* Searches *)

LEMMA SetToSeqIs ==
  ASSUME NEW S, IsFiniteSet(S)
  PROVE  Cardinality(S) \in Nat /\ SetToSeq(S) \in [1..Cardinality(S) -> S]
  <1>1. Cardinality(S) \in Nat /\ ExistsBijection(1..Cardinality(S), S)
    BY FS_CardinalityType
  <1>2. \E f \in [1..Cardinality(S) -> S] : IsInjective(f)
    BY <1>1 DEF ExistsBijection, Bijection, Injection
  <1> QED
    BY <1>1, <1>2 DEF SetToSeq

LEMMA SearchIs ==
  ASSUME IndexInv, NEW v, v.page \in Pages, NotZero(v.page)
  PROVE  IsResult(v.page, Search(v))
  <1> DEFINE found == {d \in index["log"] : Meets(Query(v.conds), d)}
             total == Cardinality(found)
             start == GetLoadRange(v.page).start
             end == GetLoadRange(v.page).end
             last == Min({end, total})
             hits == SubSeq(SetToSeq(found), start + 1, last)
  <1>1. Search(v) = [total |-> total, hits |-> hits]
    BY DEF Search
  <1>3. IsFiniteSet(found) /\ found \subseteq Docs
    <2>1. IsFiniteSet(Docs)
      BY SizesAssumption
    <2>2. found \in SUBSET Docs
      BY DEF IndexInv
    <2> QED
      BY <2>1, <2>2, FS_Subset
  <1> HIDE DEF found
  <1>4. total \in Nat /\ SetToSeq(found) \in [1..total -> found]
    BY <1>3, SetToSeqIs
  <1>5. start \in Nat /\ end = start + PageSize /\ PageSize \in Nat \ {0}
    BY RangeIs, SizesAssumption
  <1> HIDE DEF total, start, end
  <1>6. last \in Nat /\ last <= total /\ last = IF end <= total THEN end ELSE total
    BY <1>4, <1>5, MinOfTwo
  <1> HIDE DEF last
  <1>7. \A i \in (start + 1)..last : SetToSeq(found)[i] \in Docs
    <2>1. \A i \in (start + 1)..last : i \in 1..total
      BY <1>4, <1>5, <1>6
    <2> QED
      BY <1>3, <1>4, <2>1
  <1>8. /\ hits \in Seq(Docs)
        /\ Len(hits) = IF start + 1 <= last THEN last - start ELSE 0
    <2>1. start + 1 \in Int /\ last \in Int /\ last - (start + 1) + 1 = last - start
      BY <1>5, <1>6
    <2> QED
      BY <1>7, <2>1, SubSeqProperties
  <1> HIDE DEF hits
  <1>9. Len(hits) = IF total - start <= 0 THEN 0
                    ELSE IF total - start <= PageSize THEN total - start ELSE PageSize
    BY <1>4, <1>5, <1>6, <1>8
  <1> QED
    BY <1>1, <1>4, <1>8, <1>9 DEF IsResult, start

\* A result is never taken for none: nothing found has no hits.
LEMMA ResultIsLoaded ==
  ASSUME NEW page \in Pages, NotZero(page), NEW r, IsResult(page, r)
  PROVE  r # Unloaded
  <1> SUFFICES ASSUME r = Unloaded PROVE FALSE
    OBVIOUS
  <1>1. GetLoadRange(page).start \in Nat
    BY RangeIs
  <1>2. r.total = 0 => Len(r.hits) = 0
    BY <1>1 DEF IsResult
  <1>3. Unloaded.total = 0 /\ Len(Unloaded.hits) = 1
    BY DEF Unloaded
  <1> QED
    BY <1>2, <1>3

LEMMA LoadIs ==
  ASSUME ViewInv, view.phase = "open", NotZero(view.page)
  PROVE  IsResult(view.page, Load(view))
  BY SearchIs DEF ViewInv, OpenInv, Load

-----------------------------------------------------------------------------
(* A request *)

LEMMA InitView == Init => ViewInv
  <1> SUFFICES ASSUME Init PROVE ViewInv
    OBVIOUS
  <1>1. IndexInv
    BY SizesAssumption DEF Init, IndexInv
  <1>2. view.phase = "none"
    BY DEF Init, NoView
  <1> QED
    BY <1>1, <1>2 DEF ViewInv, OpenInv, NumberedInv, OnlyOddPagesCrash, PageIsOfOneSearch

\* The steps of the view leave the index alone.
LEMMA SameIndex ==
  ASSUME IndexInv, index' = index
  PROVE  IndexInv'
  BY DEF IndexInv

\* Opening, filtering, counting, answering: no page is cut.
LEMMA QuietView ==
  ASSUME ViewInv, Open \/ Filter \/ Count \/ Respond
  PROVE  ViewInv'
  <1>1. IndexInv' /\ view'.phase \in {"open", "refused", "none"}
    <2>1. index' = index
      BY DEF Open, Filter, Count, Respond
    <2>2. CASE Open
      BY <2>1, <2>2, SameIndex DEF Open, ViewInv
    <2>3. CASE Filter
      BY <2>1, <2>3, SameIndex DEF Filter, ViewInv, OpenInv
    <2>4. CASE Count
      <3>1. view = [phase |-> "open", page |-> view.page, conds |-> view.conds,
                    result |-> view.result]
        BY <2>4 DEF Count, ViewInv, OpenInv
      <3> QED
        BY <2>1, <2>4, <3>1, SameIndex DEF Count, ViewInv
    <2>5. CASE Respond
      BY <2>1, <2>5, SameIndex DEF Respond, NoView, ViewInv
    <2> QED
      BY <2>2, <2>3, <2>4, <2>5
  <1>2. OpenInv'
    <2> SUFFICES ASSUME view'.phase = "open"
                 PROVE  /\ view' = [phase |-> "open", page |-> view'.page,
                                   conds |-> view'.conds, result |-> view'.result]
                        /\ view'.page \in Pages
                        /\ view'.result # Unloaded =>
                             NotZero(view'.page) /\ IsResult(view'.page, view'.result)
      BY DEF OpenInv
    <2>1. CASE Open
      <3>1. PICK page \in Pages :
              view' = [phase |-> "open", page |-> page, conds |-> <<>>, result |-> Unloaded]
        BY <2>1 DEF Open
      <3> QED
        BY <3>1
    <2>2. CASE Filter
      <3>1. /\ view = [phase |-> "open", page |-> view.page, conds |-> view.conds,
                        result |-> view.result]
            /\ view.page \in Pages
            /\ view.result # Unloaded => NotZero(view.page) /\ IsResult(view.page, view.result)
        BY <2>2 DEF Filter, ViewInv, OpenInv
      <3>2. PICK cond : view' = [view EXCEPT !.conds = Append(@, cond)]
        BY <2>2 DEF Filter
      <3> QED
        BY <3>1, <3>2
    <2>3. CASE Count
      <3>1. /\ view.phase = "open"
            /\ view = [phase |-> "open", page |-> view.page, conds |-> view.conds,
                        result |-> view.result]
            /\ view.page \in Pages
        BY <2>3 DEF Count, ViewInv, OpenInv
      <3>2. GetLoadRange(view.page).start >= 0 /\ view' = [view EXCEPT !.result = Load(view)]
        BY <2>3, <3>1, RangeIs DEF Count
      <3>3. NotZero(view.page)
        BY <3>1, <3>2, RangeIs
      <3>4. IsResult(view.page, Load(view))
        BY <3>1, <3>3, LoadIs
      <3> QED
        BY <3>1, <3>2, <3>3, <3>4
    <2>4. CASE Respond
      BY <2>4 DEF Respond, NoView
    <2> QED
      BY <2>1, <2>2, <2>3, <2>4
  <1> QED
    BY <1>1, <1>2 DEF ViewInv, NumberedInv, OnlyOddPagesCrash, PageIsOfOneSearch

\* The Paginator counts by the search that the page will be of.
LEMMA ValidateStep ==
  ASSUME ViewInv, ValidateNumber
  PROVE  ViewInv'
  <1> DEFINE loaded == Load(view)
             pages == PagesOf(loaded.total)
             number == IF view.page.text = "last" THEN pages ELSE view.page.n
  <1>1. /\ view.phase = "open" /\ view.page \in Pages /\ index' = index
        /\ view' = IF view.page.text = "word" \/ view.page.n = 0 \/ number > pages
                   THEN [phase |-> "missing"]
                   ELSE [phase |-> "numbered", page |-> view.page, conds |-> view.conds,
                         result |-> loaded, count |-> loaded.total, number |-> number]
    BY DEF ValidateNumber, ViewInv, OpenInv, PagesOf
  <1>2. CASE view'.phase = "missing"
    BY <1>1, <1>2, SameIndex
    DEF ViewInv, OpenInv, NumberedInv, OnlyOddPagesCrash, PageIsOfOneSearch
  <1>3. CASE view'.phase # "missing"
    <2>1. /\ view.page.text # "word" /\ view.page.n # 0 /\ number <= pages
          /\ view' = [phase |-> "numbered", page |-> view.page, conds |-> view.conds,
                      result |-> loaded, count |-> loaded.total, number |-> number]
      <3>1. ~ (view.page.text = "word" \/ view.page.n = 0 \/ number > pages)
        BY <1>1, <1>3
      <3>2. NotZero(view.page) /\ view.page.n \in Nat
        BY <1>1, <3>1, SizesAssumption DEF NotZero, Pages
      <3>3. pages \in Nat
        BY <1>1, <3>2, LoadIs, PagesAre DEF IsResult
      <3>4. number \in Nat
        BY <3>2, <3>3
      <3> QED
        BY <1>1, <3>1, <3>3, <3>4
    <2>2. NotZero(view.page) /\ view.page.n \in Nat \ {0}
      BY <1>1, <2>1, SizesAssumption DEF NotZero, Pages
    <2>3. IsResult(view.page, loaded)
      BY <1>1, <2>2, LoadIs
    <2>4. pages \in Nat /\ pages >= 1
      BY <2>3, PagesAre DEF IsResult
    <2>5. number \in 1..pages
      BY <2>1, <2>2, <2>4
    <2> HIDE DEF loaded, number
    <2>6. NumberedInv'
      BY <1>1, <2>1, <2>3, <2>5 DEF NumberedInv, number
    <2> QED
      BY <1>1, <2>1, <2>6, SameIndex DEF ViewInv, OpenInv, OnlyOddPagesCrash, PageIsOfOneSearch
  <1> QED
    BY <1>2, <1>3

\* The slice: what the Paginator wants against what was loaded.
LEMMA GetItemStep ==
  ASSUME ViewInv, GetItem
  PROVE  ViewInv'
  <1> DEFINE r == view.result
             range == GetLoadRange(view.page)
             fits == range.start = Bottom(view) /\ range.end >= Top(view) /\ r.hits # <<>>
             wanted == Min({Top(view) - Bottom(view), Len(r.hits)})
             hits == IF fits THEN SubSeq(r.hits, 1, wanted) ELSE r.hits
  <1>1. /\ view = [phase |-> "numbered", page |-> view.page, conds |-> view.conds,
                   result |-> view.result, count |-> view.count, number |-> view.number]
        /\ view.page \in Pages /\ view.page.text # "word" /\ view.page.n # 0
        /\ IsResult(view.page, r) /\ view.count = r.total
        /\ view.number \in 1..PagesOf(view.count)
        /\ view.page.text # "last" => view.number = view.page.n
        /\ IndexInv
    BY DEF GetItem, ViewInv, NumberedInv
  <1>2. NotZero(view.page)
    BY <1>1, SizesAssumption DEF NotZero, Pages
  <1>3. Load(view) = r
    BY <1>1, <1>2, ResultIsLoaded DEF Load
  <1>4. r = [total |-> r.total, hits |-> r.hits] /\ r.total \in Nat /\ r.hits \in Seq(Docs)
    BY <1>1 DEF IsResult
  <1>5. /\ index' = index
        /\ view' = [view EXCEPT !.phase = IF fits THEN "served" ELSE "crashed",
                                !.result = [r EXCEPT !.hits = hits]]
    BY <1>3 DEF GetItem
  <1> HIDE DEF fits, hits
  <1>6. /\ view' = [phase |-> IF fits THEN "served" ELSE "crashed", page |-> view.page,
                    conds |-> view.conds, result |-> [total |-> r.total, hits |-> hits],
                    count |-> view.count, number |-> view.number]
        /\ Bottom(view)' = Bottom(view) /\ Top(view)' = Top(view)
    <2>1. view' = [phase |-> IF fits THEN "served" ELSE "crashed", page |-> view.page,
                   conds |-> view.conds, result |-> [total |-> r.total, hits |-> hits],
                   count |-> view.count, number |-> view.number]
      BY <1>1, <1>4, <1>5
    <2>2. view'.number = view.number /\ view'.count = view.count
      BY <2>1
    <2> QED
      BY <2>1, <2>2 DEF Bottom, Top
  <1>7. /\ Bottom(view) \in Nat
        /\ Top(view) = IF Bottom(view) + PageSize <= r.total THEN Bottom(view) + PageSize
                       ELSE r.total
        /\ r.total > 0 => Bottom(view) < r.total
    <2>1. Bottom(view) \in Nat /\ (r.total > 0 => Bottom(view) < r.total)
      BY <1>1, <1>4, PagesAre DEF Bottom
    <2>2. Bottom(view) + PageSize \in Int /\ r.total \in Int
      BY <1>4, <2>1, SizesAssumption
    <2>3. Top(view) = Min({Bottom(view) + PageSize, r.total})
      BY <1>1 DEF Top
    <2> QED
      BY <2>1, <2>2, <2>3, MinOfTwo
  <1>8. /\ range.start \in Nat /\ range.end = range.start + PageSize
        /\ PageSize \in Nat \ {0}
        /\ view.page.text = "digits" => range.start = Bottom(view)
        /\ view.page.text # "digits" => range.start = 0
    BY <1>1, <1>2, RangeIs, SizesAssumption DEF Bottom
  <1>9. ASSUME ~ fits
        PROVE  view.count = 0 \/ (view.page.text \in {"padded", "last"} /\ view.number # 1)
    <2> SUFFICES ASSUME view.count # 0, view.page.text = "digits" \/ view.number = 1
                 PROVE  FALSE
      BY <1>1 DEF Pages
    <2>1. range.start = Bottom(view)
      <3>1. view.number = 1 => Bottom(view) = 0
        BY <1>8 DEF Bottom
      <3> QED
        BY <1>8, <3>1
    <2>2. r.total > 0 /\ Bottom(view) < r.total
      BY <1>1, <1>4, <1>7
    <2>3. Len(r.hits) > 0
      BY <1>1, <1>8, <2>1, <2>2, <1>4 DEF IsResult
    <2>4. r.hits # <<>>
      BY <2>3
    <2>5. range.end >= Top(view)
      BY <1>7, <1>8, <2>1, <1>4
    <2> QED
      BY <1>9, <2>1, <2>4, <2>5 DEF fits
  <1>10. ASSUME fits
         PROVE  Len(hits) = Top(view) - Bottom(view)
    <2>1. range.start = Bottom(view) /\ Len(r.hits) > 0
      BY <1>4, <1>10 DEF fits
    <2>2. Len(r.hits) = Top(view) - Bottom(view) /\ Len(r.hits) \in Nat
      BY <1>1, <1>4, <1>7, <1>8, <2>1 DEF IsResult
    <2>3. wanted = Len(r.hits)
      BY <2>2, MinOfTwo
    <2>4. hits = r.hits
      BY <1>4, <1>10, <2>3, SubSeqFull DEF hits
    <2> QED
      BY <2>2, <2>4
  <1>11. OnlyOddPagesCrash'
    BY <1>6, <1>9 DEF OnlyOddPagesCrash
  <1>12. PageIsOfOneSearch'
    BY <1>6, <1>10 DEF PageIsOfOneSearch
  <1>13. OpenInv' /\ NumberedInv'
    BY <1>6 DEF OpenInv, NumberedInv
  <1> QED
    BY <1>1, <1>5, <1>11, <1>12, <1>13, SameIndex DEF ViewInv

\* The job and the log write to the index, the view they leave alone.
LEMMA OutsideView ==
  ASSUME ViewInv, Job \/ Log \/ UNCHANGED vars
  PROVE  ViewInv'
  <1>1. view' = view
    BY DEF Job, StartJob, DeleteByQuery, DeleteFails, Log, vars
  <1>2. IndexInv'
    <2>1. CASE index' = index
      BY <2>1, SameIndex DEF ViewInv
    <2>2. CASE Log
      BY <2>2, SizesAssumption DEF Log, ViewInv, IndexInv
    <2>3. ASSUME NEW deleted, Delete(deleted)
          PROVE  IndexInv'
      <3>1. IsFiniteSet(index["monitoring"] \ deleted)
        <4>1. index["monitoring"] \ deleted \in SUBSET index["monitoring"]
          OBVIOUS
        <4> QED
          BY <4>1, FS_Subset DEF ViewInv, IndexInv
      <3>2. \/ index' = index
            \/ index' = [index EXCEPT !["log"] = @ \ deleted]
            \/ index' = [index EXCEPT !["monitoring"] = @ \ deleted]
        BY <2>3 DEF Delete, ViewInv, IndexInv
      <3> QED
        BY <3>1, <3>2 DEF ViewInv, IndexInv
    <2> QED
      BY <2>1, <2>2, <2>3 DEF Job, StartJob, DeleteByQuery, DeleteFails, vars
  <1> QED
    BY <1>1, <1>2
    DEF ViewInv, OpenInv, NumberedInv, OnlyOddPagesCrash, PageIsOfOneSearch, Bottom, Top

LEMMA ViewInvariant == Spec => []ViewInv
  <1>1. ViewInv /\ [Next]_vars => ViewInv'
    BY QuietView, ValidateStep, GetItemStep, OutsideView DEF Next, View
  <1> QED
    BY <1>1, InitView, PTL DEF Spec

\* A request ends in an assertion or a missing key only where nothing is found
\* or where the Paginator and the query set read the page differently
\* (OnlyOddPagesCrash; __getitem__ and _get_load_range).
THEOREM PagesServed == Spec => []OnlyOddPagesCrash
  <1>1. ViewInv => OnlyOddPagesCrash
    BY DEF ViewInv
  <1> QED
    BY <1>1, ViewInvariant, PTL

\* The page served is as long as the count it is cut by says, although the
\* index changes between the two calls (PageIsOfOneSearch; load's cache).
THEOREM PagesFull == Spec => []PageIsOfOneSearch
  <1>1. ViewInv => PageIsOfOneSearch
    BY DEF ViewInv
  <1> QED
    BY <1>1, ViewInvariant, PTL

-----------------------------------------------------------------------------
(* The job *)

\* An index the job has gone on from holds old documents only if its last
\* batch met conflicts.
JobInv ==
  /\ job = [phase |-> job.phase, responses |-> job.responses]
  /\ job.phase \in {"idle", "running", "failed", "done"}
  /\ job.responses \in Seq([conflicts : Nat])
  /\ Len(job.responses) <= 2
  /\ job.phase = "running" => Len(job.responses) < 2
  /\ job.phase = "done" => Len(job.responses) = 2
  /\ \A k \in 1..Len(job.responses) :
       index[Indices[k]] \cap Old[Indices[k]] # {} => job.responses[k].conflicts > 0

LEMMA InitJob == Init => JobInv
  BY DEF Init, JobInv

\* Old documents only go, whatever else happens to the index.
LEMMA OldOnlyGo ==
  ASSUME JobInv, job' = job \/ (job' = [job EXCEPT !.phase = "failed"]),
         \A k \in 1..2 : index'[Indices[k]] \cap Old[Indices[k]]
                          \subseteq index[Indices[k]] \cap Old[Indices[k]]
  PROVE  JobInv'
  <1>1. /\ job' = [phase |-> job'.phase, responses |-> job.responses]
        /\ job'.phase \in {job.phase, "failed"} /\ job'.responses = job.responses
    BY DEF JobInv
  <1>2. \A k \in 1..Len(job.responses) : k \in 1..2
    BY DEF JobInv
  <1> QED
    BY <1>1, <1>2 DEF JobInv

LEMMA DeleteOnlyGoes ==
  ASSUME IndexInv, NEW deleted, Delete(deleted), NEW k \in 1..2
  PROVE  index'[Indices[k]] \subseteq index[Indices[k]]
  <1>1. Indices[k] \in {"log", "monitoring"}
    BY DEF Indices
  <1>2. index' = [index EXCEPT ![Target] = @ \ deleted]
    BY DEF Delete
  <1> QED
    BY <1>1, <1>2 DEF IndexInv

\* One turn of the loop: it goes on unless it has deleted nothing, which with
\* old documents left means that all of its batch were conflicts.
LEMMA TurnStep ==
  ASSUME IndexInv, JobInv, DeleteByQuery
  PROVE  JobInv'
  <1> DEFINE name == Target
             old == index[name] \cap Old[name]
             n == Len(job.responses) + 1
  <1>1. job.phase = "running" /\ n \in 1..2 /\ name = Indices[n] /\ name \in {"log", "monitoring"}
    BY DEF DeleteByQuery, JobInv, Target, Indices
  <1>2. PICK batch \in Batches : \E deleted \in SUBSET batch :
          /\ Delete(deleted)
          /\ job' = Turn(Cardinality(deleted) > 0, Cardinality(batch \ deleted))
    BY DEF DeleteByQuery
  <1>3. PICK deleted \in SUBSET batch :
          /\ Delete(deleted)
          /\ job' = Turn(Cardinality(deleted) > 0, Cardinality(batch \ deleted))
    BY <1>2
  <1>4. IsFiniteSet(old) /\ Cardinality(old) \in Nat
    <2>1. IsFiniteSet(index[name])
      BY <1>1, SizesAssumption, FS_Subset DEF IndexInv
    <2>2. old \in SUBSET index[name]
      OBVIOUS
    <2> QED
      BY <2>1, <2>2, FS_Subset, FS_CardinalityType
  <1>5. /\ batch \subseteq old /\ IsFiniteSet(batch)
        /\ old # {} => Cardinality(batch) >= 1 /\ batch # {}
    <2>1. batch \in SUBSET old /\ Cardinality(batch) = Min({ScrollSize, Cardinality(old)})
      BY <1>3 DEF Batches, kSubset
    <2>2. IsFiniteSet(batch)
      BY <1>4, <2>1, FS_Subset
    <2>3. Cardinality(batch) = IF ScrollSize <= Cardinality(old) THEN ScrollSize
                               ELSE Cardinality(old)
      <3>1. ScrollSize \in Int /\ Cardinality(old) \in Int
        BY <1>4, SizesAssumption
      <3> HIDE DEF old
      <3> QED
        BY <2>1, <3>1, MinOfTwo
    <2>4. old # {} => Cardinality(old) >= 1
      BY <1>4, FS_EmptySet
    <2>5. old # {} => Cardinality(batch) >= 1
      BY <1>4, <2>3, <2>4, SizesAssumption
    <2>6. Cardinality({}) = 0
      BY FS_EmptySet
    <2> QED
      BY <2>1, <2>2, <2>5, <2>6
  <1>6. /\ Cardinality(deleted) \in Nat /\ Cardinality(batch \ deleted) \in Nat
        /\ ~ (Cardinality(deleted) > 0) /\ old # {} => Cardinality(batch \ deleted) > 0
    <2>1. batch \ deleted \in SUBSET batch
      OBVIOUS
    <2>2. IsFiniteSet(deleted) /\ IsFiniteSet(batch \ deleted)
      BY <1>3, <1>5, <2>1, FS_Subset
    <2>3. Cardinality(deleted) \in Nat /\ Cardinality(batch \ deleted) \in Nat
      BY <2>2, FS_CardinalityType
    <2>4. ~ (Cardinality(deleted) > 0) => deleted = {}
      BY <2>2, <2>3, FS_EmptySet
    <2>5. deleted = {} => batch \ deleted = batch
      OBVIOUS
    <2> QED
      BY <1>5, <2>3, <2>4, <2>5
  <1>7. \A k \in 1..2 : index'[Indices[k]] \cap Old[Indices[k]]
                         \subseteq index[Indices[k]] \cap Old[Indices[k]]
    BY <1>3, DeleteOnlyGoes
  <1> DEFINE conflicts == Cardinality(batch \ deleted)
             responses == Append(job.responses, [conflicts |-> conflicts])
  <1>8. CASE Cardinality(deleted) > 0
    <2>1. job' = job
      BY <1>3, <1>8 DEF Turn
    <2> QED
      BY <1>7, <2>1, OldOnlyGo
  <1>9. CASE ~ (Cardinality(deleted) > 0)
    <2>1. job' = [phase |-> IF Len(responses) < 2 THEN "running" ELSE "done",
                  responses |-> responses]
      BY <1>3, <1>9 DEF Turn, Indices
    <2>2. /\ responses \in Seq([conflicts : Nat]) /\ Len(responses) = n
          /\ \A k \in 1..Len(job.responses) : responses[k] = job.responses[k]
          /\ responses[n] = [conflicts |-> conflicts]
      BY <1>1, <1>6 DEF JobInv
    <2>3. index[Indices[n]] \cap Old[Indices[n]] # {} => conflicts > 0
      BY <1>1, <1>6, <1>9
    <2> HIDE DEF responses, conflicts, n
    <2>4. ASSUME NEW k \in 1..n, index'[Indices[k]] \cap Old[Indices[k]] # {}
          PROVE  responses[k].conflicts > 0
      <3>1. index[Indices[k]] \cap Old[Indices[k]] # {}
        BY <1>1, <1>7, <2>4
      <3>2. CASE k = n
        BY <2>2, <2>3, <3>1, <3>2
      <3>3. CASE k # n
        <4>1. k \in 1..Len(job.responses)
          BY <1>1, <3>3 DEF n, JobInv
        <4> QED
          BY <2>2, <3>1, <4>1 DEF JobInv
      <3> QED
        BY <3>2, <3>3
    <2> QED
      BY <1>1, <2>1, <2>2, <2>4 DEF JobInv
  <1> QED
    BY <1>8, <1>9

LEMMA NextJob ==
  ASSUME IndexInv, JobInv, [Next]_vars
  PROVE  JobInv'
  <1>1. CASE DeleteByQuery
    BY <1>1, TurnStep
  <1>2. CASE StartJob
    BY <1>2 DEF StartJob, JobInv
  <1>3. CASE DeleteFails
    <2>1. PICK deleted : Delete(deleted)
      BY <1>3 DEF DeleteFails
    <2> QED
      BY <1>3, <2>1, DeleteOnlyGoes, OldOnlyGo DEF DeleteFails
  <1>4. CASE Log
    <2>1. PICK d \in Docs \ (Old["log"] \cup index["log"]) :
            index' = [index EXCEPT !["log"] = @ \cup {d}]
      BY <1>4 DEF Log
    <2>2. \A k \in 1..2 : index'[Indices[k]] \cap Old[Indices[k]]
                           \subseteq index[Indices[k]] \cap Old[Indices[k]]
      BY <2>1 DEF IndexInv, Indices
    <2> QED
      BY <1>4, <2>2, OldOnlyGo DEF Log
  <1>5. CASE View \/ UNCHANGED vars
    <2>1. index' = index /\ job' = job
      BY <1>5 DEF View, Open, Filter, Count, ValidateNumber, GetItem, Respond, vars
    <2> QED
      BY <2>1, OldOnlyGo
  <1> QED
    BY <1>1, <1>2, <1>3, <1>4, <1>5 DEF Next, Job

\* What the job leaves behind it has reported (LeftoverOnlyByConflict; the
\* loop of clean_old_log_elasticsearch).
THEOREM LeftoversReported == Spec => []LeftoverOnlyByConflict
  <1>1. ViewInv /\ JobInv /\ [Next]_vars => JobInv'
    BY NextJob DEF ViewInv
  <1>2. JobInv => LeftoverOnlyByConflict
    <2>1. DOMAIN Indices = 1..2
      BY DEF Indices
    <2> QED
      BY <2>1 DEF JobInv, LeftoverOnlyByConflict
  <1> QED
    BY <1>1, <1>2, InitJob, ViewInvariant, PTL DEF Spec
=============================================================================
