---------------------------- MODULE SearchPages ----------------------------
(***************************************************************************)
(* A search and its pages: the browser (web/static/app.js) asks for pages, *)
(* one cursor after the other, and shows what it accumulates; the server   *)
(* (handleSearch, Store.Search) answers each request from the shards as    *)
(* they then are, in any order; batches are stored and shards expire       *)
(* meanwhile.                                                              *)
(*                                                                         *)
(* There are two queries, the empty one (browse) and a keyword with its    *)
(* filters.  A row is its bm25 rank for the keyword, which depends on the  *)
(* other rows of its shard; its place in the shard is its rowid.  One      *)
(* request reads one snapshot; ShardStore has the steps of it.             *)
(***************************************************************************)
EXTENDS Integers, Sequences, SequencesExt

CONSTANTS
  Days,          \* dates that may have a shard
  MaxAttached,   \* maxAttachedShards
  PageSize,      \* Limit: 500 in handleSearch
  NumRanks,      \* ranks are -NumRanks .. -1: the lower, the better
  MaxRows,       \* bound: rows stored
  MaxShown,      \* bound: results shown when more are asked for
  Slots          \* bound: one for each request in flight

ASSUME PagesAssumption ==
  /\ Days \subseteq Nat \ {0} /\ IsFiniteSet(Days)
  /\ {MaxAttached, PageSize, NumRanks} \subseteq Nat \ {0}
  /\ {MaxRows, MaxShown} \subseteq Nat

Queries == {"browse", "keyword"}
NoMatch == 0                    \* the rank of a row the keyword is not in
Ranks   == -NumRanks .. NoMatch

VARIABLES
  shards,      \* the rows of every date's shard, by rowid
  expired,     \* the dates retention has deleted
  input,       \* what the search form says
  allResults,  \* the results accumulated, each with the query it is for
  nextCursor,
  loadMore,    \* the "Load more" button is shown
  requests,    \* the requests in flight and their answers
  trail        \* history: how the accumulated pages came about

storeVars == <<shards, expired>>
pageVars  == <<allResults, nextCursor, loadMore>>
vars      == <<storeVars, input, pageVars, requests, trail>>

Rows == {<<d, n>> : d \in Days, n \in 1 .. MaxRows}

NoCursor == [browse |-> FALSE, rank |-> 0, row |-> <<0, 0>>]
Cursor   == [browse : BOOLEAN, rank : Ranks, row : Rows] \union {NoCursor}
Result   == [query : Queries, row : Rows]

Idle  == [at |-> "idle"]
InUse == {s \in Slots : requests[s] # Idle}

TypeOK ==
  /\ shards \in [Days -> Seq(Ranks)]
  /\ expired \subseteq Days
  /\ input \in Queries
  /\ allResults \in Seq(Result)
  /\ nextCursor \in Cursor
  /\ loadMore \in BOOLEAN
  /\ \A s \in InUse :
       /\ requests[s].at \in {"sent", "answered"}
       /\ requests[s].first \in BOOLEAN
       /\ requests[s].query \in Queries
       /\ requests[s].at = "answered" =>
            Len(requests[s].page.results) \in 0 .. PageSize
  /\ trail.missed \subseteq Days

\* what is remembered of the search on show: whether its requests had the
\* page to themselves, its query, what its first page was read from,
\* whether every page was, and the dates some page was not read from
NoTrail == [alone |-> FALSE, query |-> "browse", base |-> {}, stable |-> TRUE,
            missed |-> {}]

Init ==
  /\ shards = [d \in Days |-> <<>>]
  /\ expired = {}
  /\ input = "browse"
  /\ allResults = <<>> /\ nextCursor = NoCursor /\ loadMore = FALSE
  /\ requests = [s \in Slots |-> Idle]
  /\ trail = NoTrail

-----------------------------------------------------------------------------
(***************************************************************************)
(* The store.  An insert changes the average length and the frequencies    *)
(* bm25 goes by, so every match of its shard may get another rank.         *)
(***************************************************************************)
Stored == FoldFunction(LAMBDA shard, n : n + Len(shard), 0, shards)

Insert(d) ==
  /\ d \notin expired
  /\ Stored < MaxRows
  /\ \E rows \in [1 .. Len(shards[d]) + 1 -> Ranks] :
       /\ \A n \in DOMAIN shards[d] :
            rows[n] = NoMatch <=> shards[d][n] = NoMatch
       /\ shards' = [shards EXCEPT ![d] = rows]
  /\ UNCHANGED <<expired, input, pageVars, requests, trail>>

Existing == {d \in Days : shards[d] # <<>>}

Expire(d) ==
  /\ d \in Existing
  /\ \A e \in Existing : d <= e
  /\ shards' = [shards EXCEPT ![d] = <<>>]
  /\ expired' = expired \union {d}
  /\ UNCHANGED <<input, pageVars, requests, trail>>

-----------------------------------------------------------------------------
(***************************************************************************)
(* Store.Search.                                                           *)
(***************************************************************************)
Newest == {d \in Existing :
             Cardinality({e \in Existing : e > d}) < MaxAttached}

RankOf(r) == shards[r[1]][r[2]]

\* the rows of the UNION ALL over some shards
Matches(query, dates) ==
  {r \in Rows : /\ r[1] \in dates /\ r[2] \in DOMAIN shards[r[1]]
                /\ query = "keyword" => RankOf(r) # NoMatch}

RowBefore(q, r) == q[1] < r[1] \/ (q[1] = r[1] /\ q[2] < r[2])

\* ORDER BY shard DESC, rowid DESC, or rank, shard, rowid
Before(query, q, r) ==
  IF query = "browse" THEN RowBefore(r, q)
  ELSE \/ RankOf(q) < RankOf(r)
       \/ RankOf(q) = RankOf(r) /\ RowBefore(q, r)

\* Mutant: rows of the cursor's rank are taken to be on the page before.
After_RankOnly(query, cursor, r) ==
  IF query = "browse" THEN RowBefore(r, cursor.row)
  ELSE RankOf(r) > cursor.rank

(* The WHERE of the outer query.  It goes by the mode of the request: the  *)
(* mode a cursor was made in is not looked at.                             *)
After(query, cursor, r) ==
  IF query = "browse" THEN RowBefore(r, cursor.row)
  ELSE \/ RankOf(r) > cursor.rank
       \/ RankOf(r) = cursor.rank /\ RowBefore(cursor.row, r)

\* the rows, each after as many as come before it
Ordered(query, rows) ==
  [n \in 1 .. Cardinality(rows) |->
     CHOOSE r \in rows :
       Cardinality({q \in rows : Before(query, q, r)}) = n - 1]

\* Mutant: the cursor is made of the extra row that is not on the page.
CursorRow_Extra(rows) == rows[PageSize + 1]

CursorRow(rows) == rows[PageSize]

OnPage(rows) == SubSeq(rows, 1, PageSize)

\* of the limit + 1 rows fetched the last only says that there are more
Page(query, cursor, dates) ==
  LET rows == Ordered(query,
                {r \in Matches(query, dates) :
                   cursor = NoCursor \/ After(query, cursor, r)})
      last == CursorRow(rows)
  IN  IF Len(rows) <= PageSize
        THEN [results |-> rows, next |-> NoCursor]
        ELSE [results |-> OnPage(rows),
              next |-> [browse |-> query = "browse", row |-> last,
                        rank |-> IF query = "browse" THEN 0
                                                     ELSE RankOf(last)]]

Snapshot(dates) == {<<r, RankOf(r)>> : r \in Matches("browse", dates)}

(* A shard whose ATTACH fails is skipped.                                  *)
Answer(s) ==
  /\ requests[s] # Idle /\ requests[s].at = "sent"
  /\ \E dates \in SUBSET Newest :
       LET q    == requests[s]
           base == Snapshot(dates)
       IN  /\ requests' = [requests EXCEPT ![s] =
                             [at |-> "answered", first |-> q.first,
                              query |-> q.query,
                              page |-> Page(q.query, q.cursor, dates)]]
           /\ trail' = IF ~trail.alone THEN trail ELSE
                [trail EXCEPT !.base   = IF q.first THEN base ELSE @,
                              !.stable = q.first \/ (@ /\ base = trail.base),
                              !.missed = @ \union (Days \ dates)]
  /\ UNCHANGED <<storeVars, input, pageVars>>

-----------------------------------------------------------------------------
(***************************************************************************)
(* app.js.  The level tabs and the pod list change the form and search at  *)
(* once; the text and the dates change it without searching.               *)
(***************************************************************************)
Edit ==
  /\ input' \in Queries \ {input}
  /\ UNCHANGED <<storeVars, pageVars, requests, trail>>

Fetch(first) ==
  \E s \in Slots \ InUse :
    requests' = [requests EXCEPT ![s] =
                   [at |-> "sent", first |-> first, query |-> input,
                    cursor |-> IF first THEN NoCursor ELSE nextCursor]]

HideButton == loadMore' = FALSE

\* runSearch
RunSearch ==
  /\ Fetch(TRUE)
  /\ HideButton
  /\ allResults' = <<>> /\ nextCursor' = NoCursor
  /\ trail' = IF InUse = {} THEN [NoTrail EXCEPT !.alone = TRUE,
                                                 !.query = input]
                             ELSE NoTrail
  /\ UNCHANGED <<storeVars, input>>

\* a click on "Load more": fetchPage(false), with the form as it is now
LoadMore ==
  /\ loadMore
  /\ Len(allResults) <= MaxShown
  /\ Fetch(FALSE)
  /\ HideButton
  /\ trail' = IF InUse = {} /\ input = trail.query THEN trail ELSE NoTrail
  /\ UNCHANGED <<storeVars, input, allResults, nextCursor>>

Free(s) == requests' = [requests EXCEPT ![s] = Idle]

\* fetchPage after its await
Show(s) ==
  /\ requests[s] # Idle /\ requests[s].at = "answered"
  /\ LET q    == requests[s]
         page == [n \in DOMAIN q.page.results |->
                    [query |-> q.query, row |-> q.page.results[n]]]
     IN  /\ allResults' = IF q.first THEN page ELSE allResults \o page
         /\ nextCursor' = q.page.next
         /\ loadMore' = (q.page.next # NoCursor)
  /\ Free(s)
  /\ UNCHANGED <<storeVars, input, trail>>

(* An error answer, or none: the query fails or the server goes away.  The *)
(* button stays hidden.                                                    *)
Fail(s) ==
  /\ requests[s] # Idle /\ requests[s].at = "sent"
  /\ Free(s)
  /\ UNCHANGED <<storeVars, input, pageVars, trail>>

-----------------------------------------------------------------------------
Next ==
  \/ \E d \in Days : Insert(d) \/ Expire(d)
  \/ Edit \/ RunSearch \/ LoadMore
  \/ \E s \in Slots : Answer(s) \/ Show(s) \/ Fail(s)

Spec == Init /\ [][Next]_vars

-----------------------------------------------------------------------------
(***************************************************************************)
(* Properties.  The pages on show are those of one search if no two        *)
(* requests were in flight and the form was left alone (trail.alone).      *)
(***************************************************************************)
Shown == {allResults[n].row : n \in DOMAIN allResults}

Loaded == trail.alone /\ InUse = {} /\ trail.base # {}

(* DESIGN/04: paging "is guaranteed gap-free and duplicate-free against a  *)
(* stable result set", in both modes: when all pages were read from the    *)
(* same shards with the same rows and ranks, what is shown is the head of  *)
(* the whole answer in its order, and all of it when no cursor is left.    *)
StablePagesExact ==
  LET dates  == {b[1][1] : b \in trail.base}
      answer == Ordered(trail.query, Matches(trail.query, dates))
      shown  == [n \in DOMAIN allResults |-> allResults[n].row]
  IN  Loaded /\ trail.stable /\ trail.base = Snapshot(dates)
        => /\ shown = SubSeq(answer, 1, Len(shown))
           /\ nextCursor = NoCursor => Len(shown) = Len(answer)

(* Browsing stays exact while lines are stored and shards expire, where a  *)
(* keyword search does not: no line is shown twice, and when no cursor is  *)
(* left every line stored before the first page was read is shown, but for *)
(* those on a date some page was not read from.                            *)
BrowseTolerant ==
  Loaded /\ trail.query = "browse" =>
    /\ Cardinality(Shown) = Len(allResults)
    /\ \A b \in trail.base :
         b[1][1] \notin trail.missed /\ nextCursor = NoCursor => b[1] \in Shown

(* app.js:93: "Accumulates every page loaded for the current               *)
(* query/filters": the results shown together are those of one query.      *)
OneQueryShown ==
  \A m, n \in DOMAIN allResults : allResults[m].query = allResults[n].query
=============================================================================
