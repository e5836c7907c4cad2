---------------------------- MODULE ServicesProofs ----------------------------
(***************************************************************************)
(* What the services every package uses keep for any values of their       *)
(* constants: the lists, the Idempotency-Key middleware, the audit log.    *)
(*                                                                         *)
(* Lists: of a key-ordered list the order, the cursor and the comparison   *)
(* are one order (Agreeing); a walk has counted once every row it has to   *)
(* show that is behind its cursor, and no row that is ahead (Counted).     *)
(*                                                                         *)
(* Idempotency: ran only grows, so an answer, once it is an execution's,   *)
(* stays that execution's.  For an orderly key the one request that is     *)
(* open, the executions and the row are in step (InStep).                  *)
(*                                                                         *)
(* Audit log: ids are never reused, so what a writer saw of a chain stays  *)
(* what it saw whatever is committed or rolled back meanwhile (Follows).   *)
(* In a serial chain the events before one by time are the events it saw.  *)
(***************************************************************************)
EXTENDS Listings, Idempotency, AuditChain, TLAPS, FiniteSetTheorems, SequenceTheorems,
        WellFoundedInduction

-----------------------------------------------------------------------------
(***************************************************************************)
(* Lists.                                                                  *)
(***************************************************************************)
(* What a request of a list asks for.                                       *)
LimitOK(limit) == limit \in 1 .. MaxLimit
QueryOK(q) == LimitOK(q.limit) /\ q.match \in SUBSET Rows /\ q.deleted \in BOOLEAN

LEMMA Limits ==
    ASSUME NEW asked \in Int
    PROVE  LimitOK(ParseLimit(asked)) /\ LimitOK(RepoLimit(asked)) /\ LimitOK(DefaultLimit)
BY ListingsAssumption DEF LimitOK, ParseLimit, RepoLimit

LEMMA Requested ==
    ASSUME NEW kind \in Kinds, NEW r, r.asked \in Int, r.match \in SUBSET Rows, r.deleted \in BOOLEAN
    PROVE  QueryOK(Request(kind, r))
<1>1. LimitOK(ParseLimit(r.asked)) /\ LimitOK(RepoLimit(r.asked)) /\ LimitOK(DefaultLimit)
  BY Limits
<1>2. \A onRequest \in BOOLEAN : QueryOK(MasterRequest(r, onRequest))
  BY <1>1 DEF MasterRequest, QueryOK
<1>3. QueryOK(HistoryRequest(r))
  BY <1>1 DEF HistoryRequest, QueryOK
<1>4. \A limit : LimitOK(limit) => QueryOK(Plain(r, limit))
  BY DEF Plain, QueryOK
<1>5. CASE kind \in DOMAIN MasterNext
  <2>1. Request(kind, r) = MasterRequests(r)[kind]
    BY <1>5 DEF Request
  <2>2. QueryOK(RatingByCounterpartyRequest(r))
    BY <1>1 DEF RatingByCounterpartyRequest, MasterRequest, QueryOK
  <2>3. /\ QueryOK(CoaRequest(r)) /\ QueryOK(CounterpartyRequest(r)) /\ QueryOK(MataUangRequest(r))
        /\ QueryOK(PortofolioRequest(r)) /\ QueryOK(BobotRequest(r)) /\ QueryOK(PdRequest(r))
        /\ QueryOK(LgdRequest(r)) /\ QueryOK(PeriodeRequest(r)) /\ QueryOK(KursRequest(r))
        /\ QueryOK(ImpactPdRequest(r)) /\ QueryOK(ImpactMevRequest(r))
        /\ QueryOK(LpsCoverageRequest(r)) /\ QueryOK(InstrumenRequest(r))
        /\ QueryOK(MappingRequest(r)) /\ QueryOK(RatingRequest(r))
    BY <1>2
    DEF CoaRequest, CounterpartyRequest, MataUangRequest, PortofolioRequest, BobotRequest,
        PdRequest, LgdRequest, PeriodeRequest, KursRequest, ImpactPdRequest, ImpactMevRequest,
        LpsCoverageRequest, InstrumenRequest, MappingRequest, RatingRequest
  <2>4. kind \in {"coa", "counterparty", "matauang", "portofolio", "bobot", "pd", "lgd", "periode",
                 "kurs", "impactpd", "impactmev", "lps", "instrumen", "mapping", "rating", "ratingOf"}
    BY <1>5 DEF MasterNext
  <2> QED BY <2>1, <2>2, <2>3, <2>4 DEF MasterRequests
<1>6. CASE kind \notin DOMAIN MasterNext /\ kind \in DOMAIN HistoryNext
  BY <1>3, <1>6 DEF Request
<1>7. CASE kind \notin DOMAIN MasterNext /\ kind \notin DOMAIN HistoryNext
  <2>1. Request(kind, r) = MeasurementRequests(r)[kind] /\ kind \in DOMAIN MeasurementNext
    BY <1>7, KindsAssumption DEF Request
  <2>2. QueryOK(ResultLineRequest(r)) /\ QueryOK(CalcRunRequest(r))
    BY <1>1 DEF ResultLineRequest, CalcRunRequest, Plain, QueryOK
  <2>3. /\ QueryOK(ScheduleRequest(r)) /\ QueryOK(AmendmentRequest(r)) /\ QueryOK(QueueRequest(r))
        /\ QueryOK(DriftReportRequest(r)) /\ QueryOK(DpdRequest(r)) /\ QueryOK(StageHistoryRequest(r))
        /\ QueryOK(StageOverrideRequest(r)) /\ QueryOK(LpsOverrideRequest(r))
        /\ QueryOK(PreviewRequest(r)) /\ QueryOK(CompositionRequest(r))
    BY <1>1, <1>4
    DEF ScheduleRequest, AmendmentRequest, QueueRequest, DriftReportRequest, DpdRequest,
        StageHistoryRequest, StageOverrideRequest, LpsOverrideRequest, PreviewRequest,
        CompositionRequest
  <2>4. kind \in {"schedule", "amendment", "queue", "drift", "dpd", "stage", "stageOverride", "line",
                 "run", "lpsOverride", "preview", "composition"}
    BY <2>1 DEF MeasurementNext
  <2> QED BY <2>1, <2>2, <2>3, <2>4 DEF MeasurementRequests
<1> QED BY <1>5, <1>6, <1>7

-----------------------------------------------------------------------------
(* The lists ordered by their cursor: when a row comes before another.      *)
Comes(kind, x, y) ==
    IF kind = "composition" THEN x.dibuat > y.dibuat \/ (x.dibuat = y.dibuat /\ x.id > y.id)
    ELSE x.kode < y.kode

(* A list's order, its cursor and the comparison with it are one order.     *)
Agreeing(kind) ==
    LET list == Fetch(kind, <<>>)
        next == NextColumns(kind)
    IN \A x, y \in Rows :
        /\ Precedes(x, y, list.order) <=> Comes(kind, x, y)
        /\ After(y, EncodeCursor(x, next), list) <=> Comes(kind, x, y)
        /\ EncodeCursor(x, next) # <<>>

LEMMA KodeAscending ==
    ASSUME NEW kind \in KeyOrdered, kind # "composition"
    PROVE  /\ Fetch(kind, <<>>) = [keys |-> <<"kode">>, dir |-> "asc", order |-> <<<<"kode", "asc">>>>]
           /\ NextColumns(kind) = <<"kode">>
<1> DEFINE list == [keys |-> <<"kode">>, dir |-> "asc", order |-> <<<<"kode", "asc">>>>]
<1>1. CASE kind = "preview"
  BY <1>1 DEF Fetch, NextColumns, MeasurementFetch, HistoryNext, MasterNext, MeasurementNext,
              PreviewList, Keyset, OrderBy, Asc, Dir
<1>2. CASE kind # "preview"
  <2>1. kind \in {"coa", "counterparty", "matauang", "portofolio"}
    BY <1>2 DEF KeyOrdered
  <2>2. /\ CoaList(<<>>) = list /\ CounterpartyList(<<>>) = list
        /\ MataUangList(<<>>) = list /\ PortofolioList(<<>>) = list
    BY DEF CoaList, CounterpartyList, MataUangList, PortofolioList, Keyset, OrderBy, Asc
  <2>3. kind \in DOMAIN MasterNext /\ MasterNext[kind] = <<"kode">>
    BY <2>1 DEF MasterNext, CoaNext, CounterpartyNext, MataUangNext, PortofolioNext
  <2> HIDE DEF list
  <2>4. MasterFetch(<<>>)[kind] = list
    BY <2>1, <2>2 DEF MasterFetch
  <2> QED BY <2>3, <2>4 DEF Fetch, NextColumns, list
<1> QED BY <1>1, <1>2

LEMMA NewestFirst ==
    /\ Fetch("composition", <<>>) =
         [keys |-> <<"dibuat", "id">>, dir |-> "desc",
          order |-> <<<<"dibuat", "desc">>, <<"id", "desc">>>>]
    /\ NextColumns("composition") = <<"dibuat", "id">>
BY DEF Fetch, NextColumns, MeasurementFetch, HistoryNext, MasterNext, MeasurementNext,
       CompositionList, Keyset, OrderBy, Desc, Dir

LEMMA OneKey ==
    ASSUME NEW c \in {"kode", "id", "dibuat"}, NEW dir, NEW x, NEW y
    PROVE  /\ Precedes(x, y, <<<<c, dir>>>>) <=> Beyond(y[c], x[c], dir)
           /\ After(y, EncodeCursor(x, <<c>>), [keys |-> <<c>>, dir |-> dir, order |-> <<<<c, dir>>>>])
                <=> Beyond(y[c], x[c], dir)
           /\ EncodeCursor(x, <<c>>) # <<>>
<1>1. \A row : Column(row, c) = row[c]
  BY DEF Column
<1>2. EncodeCursor(x, <<c>>) = <<x[c]>>
  BY <1>1 DEF EncodeCursor
<1> QED BY <1>1, <1>2 DEF Precedes, After

LEMMA TwoKeys ==
    ASSUME NEW c \in {"kode", "id", "dibuat"}, NEW e \in {"kode", "id", "dibuat"}, NEW dir, NEW x, NEW y
    PROVE  LET order == <<<<c, dir>>, <<e, dir>>>>
               later == Beyond(y[c], x[c], dir) \/ (x[c] = y[c] /\ Beyond(y[e], x[e], dir))
           IN  /\ Precedes(x, y, order) <=> later
               /\ After(y, EncodeCursor(x, <<c, e>>), [keys |-> <<c, e>>, dir |-> dir, order |-> order])
                    <=> later
               /\ EncodeCursor(x, <<c, e>>) # <<>>
<1>1. \A row : Column(row, c) = row[c] /\ Column(row, e) = row[e]
  BY DEF Column
<1>2. EncodeCursor(x, <<c, e>>) = <<x[c], x[e]>>
  BY <1>1 DEF EncodeCursor
<1> QED BY <1>1, <1>2 DEF Precedes, After

LEMMA Agreement == ASSUME NEW kind \in KeyOrdered PROVE Agreeing(kind)
<1>1. CASE kind = "composition"
  <2> SUFFICES ASSUME NEW x \in Rows, NEW y \in Rows
               PROVE  LET list == Fetch(kind, <<>>)
                          cursor == EncodeCursor(x, NextColumns(kind))
                      IN  /\ Precedes(x, y, list.order) <=> Comes(kind, x, y)
                          /\ After(y, cursor, list) <=> Comes(kind, x, y)
                          /\ cursor # <<>>
    BY DEF Agreeing
  <2>1. Comes(kind, x, y) <=>
          \/ Beyond(y.dibuat, x.dibuat, "desc")
          \/ x.dibuat = y.dibuat /\ Beyond(y.id, x.id, "desc")
    BY <1>1, ListingsAssumption DEF Comes, Beyond
  <2> QED BY <1>1, <2>1, NewestFirst, TwoKeys
<1>2. CASE kind # "composition"
  <2> SUFFICES ASSUME NEW x \in Rows, NEW y \in Rows
               PROVE  LET list == Fetch(kind, <<>>)
                          cursor == EncodeCursor(x, NextColumns(kind))
                      IN  /\ Precedes(x, y, list.order) <=> Comes(kind, x, y)
                          /\ After(y, cursor, list) <=> Comes(kind, x, y)
                          /\ cursor # <<>>
    BY DEF Agreeing
  <2>1. Comes(kind, x, y) <=> Beyond(y.kode, x.kode, "asc")
    BY <1>2, ListingsAssumption DEF Comes, Beyond
  <2> DEFINE list == [keys |-> <<"kode">>, dir |-> "asc", order |-> <<<<"kode", "asc">>>>]
  <2>2. Fetch(kind, <<>>) = list /\ NextColumns(kind) = <<"kode">>
    BY <1>2, KodeAscending
  <2>3. /\ Precedes(x, y, <<<<"kode", "asc">>>>) <=> Beyond(y.kode, x.kode, "asc")
        /\ After(y, EncodeCursor(x, <<"kode">>), list) <=> Beyond(y.kode, x.kode, "asc")
        /\ EncodeCursor(x, <<"kode">>) # <<>>
    BY OneKey
  <2>4. list.order = <<<<"kode", "asc">>>>
    OBVIOUS
  <2> HIDE DEF list
  <2> QED BY <2>1, <2>2, <2>3, <2>4
<1> QED BY <1>1, <1>2

LEMMA OneOrder ==
    ASSUME NEW kind, NEW x \in Rows, NEW y \in Rows, NEW z \in Rows
    PROVE  /\ Comes(kind, x, y) /\ Comes(kind, y, z) => Comes(kind, x, z)
           /\ ~Comes(kind, x, x)
           /\ Comes(kind, x, y) \/ Comes(kind, y, x) \/ x = y
              \/ (kind # "composition" /\ x.kode = y.kode)
BY ListingsAssumption DEF Comes

-----------------------------------------------------------------------------
(* The walk's invariant.  A walk that is to be exact has counted what comes *)
(* before its cursor and nothing after it.                                  *)
Exact(w) == w.kind \in KeyOrdered /\ w.q.sort = <<>> /\ (w.q.deleted => w.kind \notin FreesKode)
Ahead(row) == After(row, walk.cursor, Fetch(walk.kind, <<>>))

WalkOK ==
    /\ walk.kind \in Kinds /\ QueryOK(walk.q) /\ DOMAIN walk.seen = Rows
    /\ steady \subseteq Visible(walk)

(* Among the rows a walk can see, a key has one row.                        *)
KeysApart ==
    \A x, y \in table \cup (IF walk.q.deleted THEN erased ELSE {}) : x.kode = y.kode => x = y

Counted ==
    /\ \A row \in Rows : walk.seen[row] \in {0, 1}
    /\ walk.phase = "walking" =>
         /\ walk.cursor = <<>> \/ \E y \in Rows : walk.cursor = EncodeCursor(y, NextColumns(walk.kind))
         /\ \A row \in Rows : walk.seen[row] = 1 => ~Ahead(row)
         /\ \A row \in steady : ~Ahead(row) => walk.seen[row] = 1
    /\ walk.phase = "done" => \A row \in steady : walk.seen[row] = 1

RowsOK ==
    /\ table \subseteq Rows /\ erased \subseteq Rows /\ table \cap erased = {}
    /\ \A x, y \in table : x.kode = y.kode => x = y

ListInv ==
    /\ RowsOK
    /\ \/ walk = NoWalk /\ steady = {} /\ erased = {}
       \/ /\ walk.phase \in {"walking", "done", "failed"} /\ WalkOK
          /\ walk.kind \notin FreesKode \/ ~walk.q.deleted => KeysApart
          /\ Exact(walk) => Counted

(* Before the walk nothing is deleted and keys are apart.                   *)
THEOREM ListInitially == ListInit => ListInv
BY ListingsAssumption DEF ListInit, ListInv, RowsOK

(* A client begins: the rows it sees are not deleted, and none is counted.  *)
LEMMA BeginStep ==
    ASSUME ListInv, NEW kind \in Kinds, NEW r, r.asked \in Int, r.match \in SUBSET Rows,
           r.deleted \in BOOLEAN, Begin(kind, r)
    PROVE  ListInv'
<1>1. QueryOK(Request(kind, r))
  BY Requested
<1>2. /\ walk' = [phase |-> "walking", kind |-> kind, q |-> Request(kind, r), cursor |-> <<>>,
                  seen |-> [row \in Rows |-> 0]]
      /\ steady' = Visible(walk') /\ table' = table /\ erased' = erased /\ erased = {} /\ walk = NoWalk
  BY DEF Begin, ListInv, NoWalk
<1>3. RowsOK' /\ RowsOK
  BY <1>2 DEF ListInv, RowsOK
<1>4. WalkOK'
  BY <1>1, <1>2 DEF WalkOK, Visible
<1>5. KeysApart'
  BY <1>2, <1>3 DEF KeysApart, RowsOK
<1>6. Counted'
  <2>1. walk'.cursor = <<>> /\ walk'.phase = "walking" /\ \A row \in Rows : walk'.seen[row] = 0
    BY <1>2
  <2>2. \A row : Ahead(row)'
    BY <2>1 DEF Ahead, After
  <2> QED BY <2>1, <2>2 DEF Counted
<1> QED BY <1>2, <1>3, <1>4, <1>5, <1>6 DEF ListInv

(* A row appears: the walk has not counted it, and its key is new.          *)
LEMMA InsertStep ==
    ASSUME ListInv, NEW row \in Rows, Insert(row)
    PROVE  ListInv'
<1>1. /\ table' = table \cup {row} /\ erased' = erased /\ steady' = steady /\ walk' = walk
      /\ walk.phase = "walking" /\ row \notin table \cup erased
      /\ \A other \in Occupied : other.kode # row.kode
  BY DEF Insert
<1>2. /\ RowsOK /\ WalkOK /\ (walk.kind \notin FreesKode \/ ~walk.q.deleted => KeysApart)
      /\ (Exact(walk) => Counted)
  BY <1>1 DEF ListInv, NoWalk
<1>3. \A other \in table : other.kode # row.kode
  BY <1>1 DEF Occupied
<1>4. RowsOK'
  BY <1>1, <1>2, <1>3 DEF RowsOK
<1>5. WalkOK'
  BY <1>1, <1>2 DEF WalkOK, Visible
<1>6. ASSUME walk.kind \notin FreesKode \/ ~walk.q.deleted PROVE KeysApart'
  <2>1. \A other \in table \cup (IF walk.q.deleted THEN erased ELSE {}) : other.kode # row.kode
    BY <1>1, <1>3, <1>6 DEF Occupied
  <2> QED BY <1>1, <1>2, <1>6, <2>1 DEF KeysApart
<1>7. ASSUME Exact(walk) PROVE Counted'
  BY <1>1, <1>2, <1>7 DEF Counted, Ahead
<1> QED BY <1>1, <1>2, <1>4, <1>5, <1>6, <1>7 DEF ListInv

(* A row is deleted: if the walk no longer sees it, it is no longer one of  *)
(* those the walk has to show.                                              *)
LEMMA DeleteStep ==
    ASSUME ListInv, NEW row \in Rows, SoftDelete(row)
    PROVE  ListInv'
<1>1. /\ table' = table \ {row} /\ erased' = erased \cup {row} /\ walk' = walk /\ row \in table
      /\ steady' = IF walk.q.deleted THEN steady ELSE steady \ {row}
      /\ walk.phase = "walking"
  BY DEF SoftDelete
<1>2. /\ RowsOK /\ WalkOK /\ (walk.kind \notin FreesKode \/ ~walk.q.deleted => KeysApart)
      /\ (Exact(walk) => Counted)
  BY <1>1 DEF ListInv, NoWalk
<1>3. RowsOK'
  BY <1>1, <1>2 DEF RowsOK
<1>4. WalkOK'
  BY <1>1, <1>2 DEF WalkOK, Visible
<1>5. ASSUME walk.kind \notin FreesKode \/ ~walk.q.deleted PROVE KeysApart'
  BY <1>1, <1>2, <1>5 DEF KeysApart
<1>6. ASSUME Exact(walk) PROVE Counted'
  BY <1>1, <1>2, <1>6 DEF Counted, Ahead
<1> QED BY <1>1, <1>2, <1>3, <1>4, <1>5, <1>6 DEF ListInv

(* What a page is: the cursor moves to its last row, and a page that is the *)
(* last holds every candidate.                                              *)
Candidates == {row \in Visible(walk) : After(row, walk.cursor, Fetch(walk.kind, walk.q.sort))}
Shown(page) == [row \in Rows |-> IF row \in page /\ walk.seen[row] < 2 THEN walk.seen[row] + 1
                                 ELSE walk.seen[row]]

LEMMA Paged ==
    ASSUME ListInv, NextPage
    PROVE  /\ walk.phase = "walking" /\ WalkOK /\ RowsOK
           /\ UNCHANGED <<table, erased, steady, changes>>
           /\ walk'.kind = walk.kind /\ walk'.q = walk.q /\ walk'.phase \in {"walking", "done"}
           /\ \E page \in SUBSET Candidates :
                /\ walk'.seen = Shown(page)
                /\ walk'.phase = "done" => page = Candidates
                /\ walk'.phase = "walking" =>
                     /\ IsPrefix(page, Candidates, Fetch(walk.kind, walk.q.sort).order)
                     /\ \E last \in LastOf(page, Fetch(walk.kind, walk.q.sort).order) :
                          walk'.cursor = EncodeCursor(last, NextColumns(walk.kind))
<1> DEFINE list == Fetch(walk.kind, walk.q.sort)
           cand == {row \in Visible(walk) : After(row, walk.cursor, list)}
           more == HasMore(Cardinality(cand), walk.q.limit)
           size == IF more THEN walk.q.limit ELSE Cardinality(cand)
           fetched == IF more THEN walk.q.limit + 1 ELSE Cardinality(cand)
           next(page, last) ==
               [walk EXCEPT
                    !.phase = IF more THEN "walking" ELSE "done",
                    !.cursor = IF more THEN EncodeCursor(last, NextColumns(walk.kind)) ELSE <<>>,
                    !.seen = [row \in Rows |-> IF row \in page /\ @[row] < 2 THEN @[row] + 1
                                               ELSE @[row]]]
<1>1. walk.phase = "walking" /\ UNCHANGED <<table, erased, steady, changes>>
  BY DEF NextPage
<1>2. WalkOK /\ RowsOK
  BY <1>1 DEF ListInv, NoWalk
<1>3. cand = Candidates
  BY DEF Candidates
<1>4. PICK rows \in kSubset(fetched, cand) :
          /\ IsPrefix(rows, cand, list.order)
          /\ \E page \in kSubset(size, rows) :
             /\ IsPrefix(page, rows, list.order)
             /\ \E last \in IF more THEN CursorRow(page, rows \ page, list.order) ELSE {<<>>} :
                walk' = next(page, last)
  BY DEF NextPage
<1>5. PICK page \in kSubset(size, rows) :
          /\ IsPrefix(page, rows, list.order)
          /\ \E last \in IF more THEN CursorRow(page, rows \ page, list.order) ELSE {<<>>} :
             walk' = next(page, last)
  BY <1>4
<1>6. PICK last \in IF more THEN CursorRow(page, rows \ page, list.order) ELSE {<<>>} :
          walk' = next(page, last)
  BY <1>5
<1>7. /\ rows \in SUBSET cand /\ Cardinality(rows) = fetched
      /\ page \in SUBSET rows /\ Cardinality(page) = size
  BY <1>4, <1>5 DEF kSubset
<1> HIDE DEF list, cand
<1>8. /\ walk'.kind = walk.kind /\ walk'.q = walk.q
      /\ walk'.phase = IF more THEN "walking" ELSE "done"
      /\ walk'.cursor = IF more THEN EncodeCursor(last, NextColumns(walk.kind)) ELSE <<>>
      /\ walk'.seen = Shown(page)
  BY <1>6 DEF WalkOK, Shown
<1> HIDE DEF next
<1>9. more \in BOOLEAN
  BY DEF HasMore
<1>10. CASE more
  <2>1. IsPrefix(page, cand, list.order)
    BY <1>4, <1>5, <1>7 DEF IsPrefix
  <2>2. last \in LastOf(page, list.order)
    BY <1>6, <1>10 DEF CursorRow
  <2> QED BY <1>1, <1>2, <1>3, <1>7, <1>8, <1>10, <2>1, <2>2 DEF list
<1>11. CASE ~more
  <2>1. IsFiniteSet(cand)
    <3>1. cand \in SUBSET Rows
      BY <1>2 DEF cand, Visible, RowsOK
    <3> QED BY <3>1, ListingsAssumption, FS_Subset
  <2>2. Cardinality(page) = Cardinality(cand) /\ page \in SUBSET cand
    BY <1>7, <1>11
  <2>3. page = cand
    BY <2>1, <2>2, FS_Subset
  <2> QED BY <1>1, <1>2, <1>3, <1>8, <1>11, <2>3
<1> QED BY <1>9, <1>10, <1>11

(* A page: what it shows was ahead of the cursor and is behind the next one,*)
(* and every row behind the next cursor that the walk sees is on it or was  *)
(* behind the cursor before.                                                *)
LEMMA PageStep ==
    ASSUME ListInv, NextPage
    PROVE  ListInv'
<1> DEFINE kind == walk.kind
           order == Fetch(kind, walk.q.sort).order
<1>1. /\ walk.phase = "walking" /\ WalkOK /\ RowsOK
      /\ UNCHANGED <<table, erased, steady, changes>>
      /\ walk'.kind = walk.kind /\ walk'.q = walk.q /\ walk'.phase \in {"walking", "done"}
  BY Paged
<1>2. PICK page \in SUBSET Candidates :
          /\ walk'.seen = Shown(page)
          /\ walk'.phase = "done" => page = Candidates
          /\ walk'.phase = "walking" =>
               /\ IsPrefix(page, Candidates, order)
               /\ \E last \in LastOf(page, order) :
                    walk'.cursor = EncodeCursor(last, NextColumns(walk.kind))
  BY Paged
<1>3. /\ walk.kind \notin FreesKode \/ ~walk.q.deleted => KeysApart
      /\ Exact(walk) => Counted
  BY <1>1 DEF ListInv, NoWalk
<1>4. RowsOK' /\ WalkOK'
  BY <1>1, <1>2 DEF RowsOK, WalkOK, Visible, Shown
<1>5. ASSUME walk.kind \notin FreesKode \/ ~walk.q.deleted PROVE KeysApart'
  BY <1>1, <1>3, <1>5 DEF KeysApart
<1>6. ASSUME Exact(walk) PROVE Counted'
  <2>1. Counted /\ KeysApart /\ kind \in KeyOrdered /\ walk.q.sort = <<>>
    BY <1>3, <1>6 DEF Exact
  <2>2. Agreeing(kind)
    BY <2>1, Agreement
  <2>3. Candidates = {row \in Visible(walk) : Ahead(row)} /\ Visible(walk) \in SUBSET Rows
    BY <1>1, <2>1 DEF Candidates, Ahead, Visible, RowsOK
  <2>4. \A row \in Rows : walk.seen[row] \in {0, 1} /\ (walk.seen[row] = 1 => ~Ahead(row))
    BY <1>1, <2>1 DEF Counted
  <2>5. \A row \in steady : row \in Visible(walk) /\ (~Ahead(row) => walk.seen[row] = 1)
    BY <1>1, <2>1 DEF Counted, WalkOK
  <2>6. ASSUME NEW row \in Rows
        PROVE  walk'.seen[row] = IF row \in page THEN 1 ELSE walk.seen[row]
    <3>1. row \in page => walk.seen[row] = 0
      BY <2>3, <2>4
    <3>2. walk'.seen[row] = IF row \in page /\ walk.seen[row] < 2 THEN walk.seen[row] + 1
                            ELSE walk.seen[row]
      BY <1>2 DEF Shown
    <3> QED BY <3>1, <3>2
  <2>7. \A row \in Rows : walk'.seen[row] \in {0, 1}
    BY <2>4, <2>6
  <2>8. CASE walk'.phase = "done"
    <3>1. ASSUME NEW row \in steady PROVE walk'.seen[row] = 1
      <4>1. row \in Rows
        BY <2>3, <2>5
      <4>2. row \in page \/ walk.seen[row] = 1
        BY <1>2, <2>3, <2>5, <2>8
      <4> QED BY <2>6, <4>1, <4>2
    <3> QED BY <1>1, <2>7, <2>8, <3>1 DEF Counted
  <2>9. CASE walk'.phase = "walking"
    <3>1. PICK last \in LastOf(page, order) : walk'.cursor = EncodeCursor(last, NextColumns(kind))
      BY <1>2, <2>9
    <3>2. /\ last \in page /\ last \in Rows /\ last \in Visible(walk) /\ Ahead(last)
          /\ page \in SUBSET Rows
      BY <2>3, <3>1 DEF LastOf
    <3>3. ASSUME NEW x \in Rows, NEW y \in Rows PROVE Precedes(x, y, order) <=> Comes(kind, x, y)
      BY <2>1, <2>2 DEF Agreeing
    <3>4. \A row \in Rows : Ahead(row)' <=> Comes(kind, last, row)
      BY <1>1, <2>2, <3>1, <3>2 DEF Agreeing, Ahead
    <3>5. \A x \in page : ~Comes(kind, last, x)
      BY <3>1, <3>2, <3>3 DEF LastOf
    <3>6. \A x \in Candidates \ page : ~Comes(kind, x, last)
      BY <1>2, <2>3, <2>9, <3>2, <3>3 DEF IsPrefix
    <3>7. ASSUME NEW row \in Rows, ~Ahead(row) PROVE ~Comes(kind, last, row)
      <4>1. walk.cursor # <<>>
        BY <3>7 DEF Ahead, After
      <4>2. PICK y \in Rows : walk.cursor = EncodeCursor(y, NextColumns(kind))
        BY <1>1, <2>1, <4>1 DEF Counted
      <4>3. Comes(kind, y, last) /\ ~Comes(kind, y, row)
        BY <2>1, <2>2, <3>2, <3>7, <4>2 DEF Agreeing, Ahead
      <4> QED BY <3>2, <4>3, OneOrder
    <3>8. ASSUME NEW row \in Rows, walk'.seen[row] = 1 PROVE ~Ahead(row)'
      <4>1. row \in page \/ ~Ahead(row)
        BY <2>4, <2>6, <3>8
      <4> QED BY <3>4, <3>5, <3>7, <4>1
    <3>9. ASSUME NEW row \in steady, ~Ahead(row)' PROVE walk'.seen[row] = 1
      <4>1. row \in Rows /\ row \in Visible(walk) /\ ~Comes(kind, last, row)
        BY <2>3, <2>5, <3>4, <3>9
      <4>2. CASE ~Ahead(row)
        BY <2>5, <2>6, <4>1, <4>2
      <4>3. CASE Ahead(row) /\ row \notin page
        <5>1. row \in Candidates \ page
          BY <2>3, <4>1, <4>3
        <5>2. ~Comes(kind, row, last)
          BY <3>6, <5>1
        <5>3. row # last
          BY <3>2, <4>3
        <5>4. row.kode # last.kode
          BY <2>1, <3>2, <4>1, <5>3 DEF KeysApart, Visible
        <5> QED BY <3>2, <4>1, <5>2, <5>3, <5>4, OneOrder
      <4> QED BY <2>6, <4>1, <4>2, <4>3
    <3> QED BY <1>1, <2>7, <2>9, <3>1, <3>2, <3>8, <3>9 DEF Counted
  <2> QED BY <1>1, <2>8, <2>9
<1> QED BY <1>1, <1>4, <1>5, <1>6 DEF ListInv, Exact

(* A page the database refuses shows nothing.                               *)
LEMMA FailStep ==
    ASSUME ListInv, PageFails
    PROVE  ListInv'
<1>1. /\ walk' = [walk EXCEPT !.phase = "failed"] /\ walk.phase = "walking"
      /\ UNCHANGED <<table, erased, steady, changes>>
  BY DEF PageFails
<1>2. /\ RowsOK /\ WalkOK /\ (walk.kind \notin FreesKode \/ ~walk.q.deleted => KeysApart)
      /\ (Exact(walk) => Counted)
  BY <1>1 DEF ListInv, NoWalk
<1>3. /\ walk'.kind = walk.kind /\ walk'.q = walk.q /\ walk'.seen = walk.seen
      /\ walk'.phase = "failed"
  BY <1>1, <1>2
<1>4. RowsOK' /\ WalkOK'
  BY <1>1, <1>2, <1>3 DEF RowsOK, WalkOK, Visible
<1>5. ASSUME walk.kind \notin FreesKode \/ ~walk.q.deleted PROVE KeysApart'
  BY <1>1, <1>2, <1>3, <1>5 DEF KeysApart
<1>6. ASSUME Exact(walk) PROVE Counted'
  BY <1>2, <1>3, <1>6 DEF Counted
<1> QED BY <1>1, <1>3, <1>4, <1>5, <1>6 DEF ListInv, Exact

LEMMA ListInductive == ListInv /\ [ListNext]_listVars => ListInv'
<1> SUFFICES ASSUME ListInv, [ListNext]_listVars PROVE ListInv'
  OBVIOUS
<1>1. CASE UNCHANGED listVars
  BY <1>1 DEF listVars, ListInv, RowsOK, WalkOK, KeysApart, Counted, Ahead, Visible, Exact
<1>2. ASSUME NEW kind \in Kinds, NEW sort \in Sorts, NEW match \in Filters, NEW asked \in Asked,
             NEW deleted \in BOOLEAN, NEW perms,
             Begin(kind, [sort |-> sort, match |-> match, asked |-> asked,
                          deleted |-> deleted, perms |-> perms])
      PROVE  ListInv'
  <2> DEFINE r == [sort |-> sort, match |-> match, asked |-> asked,
                   deleted |-> deleted, perms |-> perms]
  <2>1. r.asked \in Int /\ r.match \in SUBSET Rows /\ r.deleted \in BOOLEAN
    BY ListingsAssumption
  <2>2. Begin(kind, r)
    BY <1>2
  <2> HIDE DEF r
  <2> QED BY <2>1, <2>2, BeginStep
<1>3. CASE ListNext
  BY <1>2, <1>3, PageStep, FailStep, InsertStep, DeleteStep DEF ListNext
<1> QED BY <1>1, <1>3

(* The walk's invariant holds in every state a walk can reach.              *)
THEOREM ListInvariance == ListSpec => []ListInv
BY ListInitially, ListInductive, PTL DEF ListSpec

(* The rows of a table and what a walk of it has seen keep their types, and *)
(* no list is ever asked for no row or for more than the limit.             *)
THEOREM ListsTyped == ListSpec => []ListTypeOK
<1>1. ListInv => ListTypeOK
  BY DEF ListInv, ListTypeOK, RowsOK, WalkOK, NoWalk, Visible, QueryOK, LimitOK
<1> QED BY <1>1, ListInvariance, PTL

(* Cursor, comparison and order of the key-ordered lists agree, so a walk   *)
(* shows each row exactly once, whatever the limit, the filter and what     *)
(* others insert and delete.                                                *)
THEOREM WalksExact == ListSpec => []WalkExact
<1>1. ListInv => WalkExact
  BY DEF ListInv, WalkExact, Exact, Counted, NoWalk
<1> QED BY <1>1, ListInvariance, PTL

-----------------------------------------------------------------------------
(***************************************************************************)
(* The Idempotency-Key middleware.                                         *)
(***************************************************************************)
Execution == [key : Keys, payload : Payloads]
RowType == [payload : Payloads, answer : Nat, status : Statuses, expires : Nat]
RequestType == [step : Steps, key : Keys \cup {NoRow}, payload : Payloads \cup {NoRow},
                answer : Nat, status : Statuses \cup {"none"}]

(* Every variable has its type; only an idle request has no key, and one    *)
(* that is about to be saved has been answered.                             *)
Typed ==
    /\ clock \in Nat /\ clock <= MaxClock /\ orderly \subseteq Keys
    /\ ran \in Seq(Execution)
    /\ stored \in [Keys -> RowType \cup {NoRow}]
    /\ req \in [Requests -> RequestType]
    /\ \A r \in Requests : req[r].step # "idle" => req[r].key \in Keys /\ req[r].payload \in Payloads
    /\ \A r \in Requests : req[r].step = "save" => req[r].status \in Statuses

(* Answer n is that of an execution of this key and payload.                *)
Executed(n, key, payload) == n \in 1 .. Len(ran) /\ ran[n] = [key |-> key, payload |-> payload]

AnswersExecuted ==
    /\ \A k \in Keys : stored[k] # NoRow =>
          Executed(stored[k].answer, k, stored[k].payload) /\ stored[k].expires <= clock + TTL
    /\ \A r \in Requests : req[r].step \in {"save", "replayed"} =>
          Executed(req[r].answer, req[r].key, req[r].payload)

(* Of an orderly key: one request is open; it has not run anything unless   *)
(* it is about to save; once executed the answer is about to be saved or    *)
(* saved and live; and there is one execution.                              *)
InStep(k) ==
    /\ \A r, s \in Open : req[r].key = k /\ req[s].key = k => r = s
    /\ \A r \in Requests : req[r].step = "unsaved" => req[r].key # k
    /\ \A r \in Requests : req[r].step = "handle" /\ req[r].key = k => Of(k) = {} /\ stored[k] = NoRow
    /\ \A r \in Requests : req[r].step = "save" /\ req[r].key = k => stored[k] = NoRow
    /\ Of(k) # {} => Live(k) \/ \E r \in Requests : req[r].step = "save" /\ req[r].key = k
    /\ stored[k] # NoRow => Live(k)
    /\ \A m, n \in Of(k) : m = n

IdemInv == Typed /\ AnswersExecuted /\ \A k \in orderly : InStep(k)

-----------------------------------------------------------------------------
(* The answers of executions outlive everything.                            *)
LEMMA RunGrows ==
    ASSUME Typed, NEW r \in Requests, req[r].step # "idle", Run(r)
    PROVE  /\ ran' \in Seq(Execution) /\ Len(ran') = Len(ran) + 1
           /\ ran'[Len(ran')] = [key |-> req[r].key, payload |-> req[r].payload]
           /\ \A n \in 1 .. Len(ran) : ran'[n] = ran[n]
BY DEF Typed, Run, Execution

\* Nothing has run and nothing is saved.
THEOREM IdemInitially == IdemInit => IdemInv
<1> SUFFICES ASSUME IdemInit PROVE IdemInv
  OBVIOUS
<1>1. Typed
  BY IdempotencyAssumption DEF IdemInit, Typed, NotYet, RequestType, Steps, Execution
<1>2. AnswersExecuted
  BY DEF IdemInit, AnswersExecuted, NotYet
<1>3. ASSUME NEW k \in orderly PROVE InStep(k)
  BY DEF IdemInit, InStep, Open, Of, NotYet, Live
<1> QED BY <1>1, <1>2, <1>3 DEF IdemInv

(* What a request is after it has reached its next step.                    *)
LEMMA Reached ==
    ASSUME Typed, NEW r \in Requests, NEW step \in Steps, NEW n \in Nat, Reach(r, step, n)
    PROVE  /\ req' \in [Requests -> RequestType]
           /\ req'[r].step = step /\ req'[r].key = req[r].key
           /\ req'[r].payload = req[r].payload /\ req'[r].answer = n
           /\ \A s \in Requests \ {r} : req'[s] = req[s]
<1> DEFINE q == [req[r] EXCEPT !.step = step, !.answer = n]
<1>2. req[r] \in RequestType /\ q \in RequestType
  BY DEF Typed, RequestType
<1>3. req' = [req EXCEPT ![r] = q]
  BY <1>2 DEF Reach, Typed
<1>4. q.step = step /\ q.key = req[r].key /\ q.payload = req[r].payload /\ q.answer = n
  BY <1>2 DEF RequestType
<1> QED BY <1>2, <1>3, <1>4 DEF Typed

LEMMA TypedStep ==
    ASSUME Typed, IdemNext
    PROVE  Typed'
<1> USE DEF Typed
<1>1. CASE Tick
  BY <1>1, IdempotencyAssumption DEF Tick
<1>2. ASSUME NEW r \in Requests, NEW key \in Keys, NEW payload \in Payloads, Arrive(r, key, payload)
      PROVE  Typed'
  <2>1. [NotYet EXCEPT !.step = "lookup", !.key = key, !.payload = payload] \in RequestType
    BY DEF NotYet, RequestType, Steps
  <2>2. req' \in [Requests -> RequestType]
    BY <1>2, <2>1 DEF Arrive
  <2> QED BY <1>2, <2>2 DEF Arrive, NotYet
<1>3. ASSUME NEW r \in Requests, FailOpen(r) \/ Found(r) \/ NotFound(r)
      PROVE  Typed'
  <2>1. req[r].key \in Keys
    BY <1>3 DEF FailOpen, Found, NotFound
  <2>2. Found(r) => stored[req[r].key].answer \in Nat
    BY <2>1 DEF Found, Live, RowType
  <2>3. \E step \in Steps \ {"save"}, n \in Nat : Reach(r, step, n)
    BY <1>3, <2>2 DEF FailOpen, Found, NotFound, Steps
  <2>4. /\ req' \in [Requests -> RequestType]
        /\ req'[r].key = req[r].key /\ req'[r].payload = req[r].payload /\ req'[r].step # "save"
        /\ \A s \in Requests \ {r} : req'[s] = req[s]
    BY <2>3, Reached
  <2>5. req[r].step # "idle" /\ clock' = clock /\ ran' = ran /\ stored' = stored /\ orderly' \subseteq orderly
    BY <1>3 DEF FailOpen, Found, NotFound
  <2> QED BY <2>4, <2>5
<1>4. ASSUME NEW r \in Requests, Handle(r) \/ HandleUnsaved(r)
      PROVE  Typed'
  <2>1. req[r].step # "idle" /\ Run(r)
    BY <1>4 DEF Handle, HandleUnsaved
  <2>2. ran' \in Seq(Execution)
    BY <2>1, RunGrows
  <2>3. Len(ran') \in Nat
    BY <2>2
  <2>4. CASE HandleUnsaved(r)
    <3>1. Reach(r, "ran", Len(ran')) /\ "ran" \in Steps
      BY <2>4 DEF HandleUnsaved, Steps
    <3> HIDE DEF Typed
    <3>2. /\ req' \in [Requests -> RequestType]
          /\ req'[r].key = req[r].key /\ req'[r].payload = req[r].payload /\ req'[r].step = "ran"
          /\ \A s \in Requests \ {r} : req'[s] = req[s]
      BY <2>3, <3>1, Reached
    <3> QED BY <2>1, <2>2, <2>4, <3>2 DEF HandleUnsaved, Typed
  <2>5. CASE Handle(r)
    <3>1. PICK status \in Statuses :
             req' = [req EXCEPT ![r].step = "save", ![r].answer = Len(ran'), ![r].status = status]
      BY <2>5 DEF Handle
    <3> DEFINE q == [req[r] EXCEPT !.step = "save", !.answer = Len(ran'), !.status = status]
    <3>2. /\ q \in RequestType /\ q.key = req[r].key /\ q.payload = req[r].payload
          /\ q.status = status
      BY <2>3 DEF RequestType, Steps
    <3>3. req' = [req EXCEPT ![r] = q]
      BY <3>1
    <3> HIDE DEF q
    <3> QED BY <2>1, <2>2, <2>5, <3>2, <3>3 DEF Handle
  <2> QED BY <1>4, <2>4, <2>5
<1>5. ASSUME NEW r \in Requests, Save(r) \/ SaveFails(r)
      PROVE  Typed'
  <2>1. /\ req[r].key \in Keys /\ req[r].payload \in Payloads /\ req[r].answer \in Nat
        /\ req[r].status \in Statuses
    BY <1>5 DEF Save, SaveFails, RequestType
  <2>2. Row(r) \in RowType
    BY <2>1, IdempotencyAssumption DEF Row, RowType, Expires
  <2>3. stored' \in [Keys -> RowType \cup {NoRow}]
    BY <1>5, <2>2 DEF Save, SaveFails
  <2>4. Reach(r, "ran", req[r].answer) /\ "ran" \in Steps
    BY <1>5 DEF Save, SaveFails, Steps
  <2>5. /\ req' \in [Requests -> RequestType]
        /\ req'[r].key = req[r].key /\ req'[r].payload = req[r].payload /\ req'[r].step = "ran"
        /\ \A s \in Requests \ {r} : req'[s] = req[s]
    BY <2>1, <2>4, Reached
  <2>6. req[r].step # "idle" /\ clock' = clock /\ ran' = ran /\ orderly' \subseteq orderly
    BY <1>5 DEF Save, SaveFails
  <2> QED BY <2>1, <2>3, <2>5, <2>6
<1> QED BY <1>1, <1>2, <1>3, <1>4, <1>5 DEF IdemNext

LEMMA AnswersStep ==
    ASSUME Typed, AnswersExecuted, IdemNext
    PROVE  AnswersExecuted'
<1> USE DEF Typed, AnswersExecuted, Executed
<1>1. CASE Tick
  BY <1>1, IdempotencyAssumption DEF Tick, RowType
<1>2. ASSUME NEW r \in Requests, NEW key \in Keys, NEW payload \in Payloads, Arrive(r, key, payload)
      PROVE  AnswersExecuted'
  BY <1>2 DEF Arrive, NotYet
<1>3. ASSUME NEW r \in Requests, FailOpen(r) \/ NotFound(r)
      PROVE  AnswersExecuted'
  <2>1. /\ req'[r].step \in {"unsaved", "handle"}
        /\ \A s \in Requests \ {r} : req'[s] = req[s]
        /\ ran' = ran /\ stored' = stored /\ clock' = clock
    BY <1>3 DEF FailOpen, NotFound, Reach, RequestType
  <2> QED BY <2>1
<1>4. ASSUME NEW r \in Requests, Found(r)
      PROVE  AnswersExecuted'
  <2>1. req[r].key \in Keys /\ stored[req[r].key] # NoRow
    BY <1>4 DEF Found, Live
  <2>2. /\ req'[r].key = req[r].key /\ req'[r].payload = req[r].payload
        /\ req'[r].step = "replayed" => /\ req'[r].answer = stored[req[r].key].answer
                                        /\ stored[req[r].key].payload = req[r].payload
        /\ req'[r].step # "save"
        /\ \A s \in Requests \ {r} : req'[s] = req[s]
    BY <1>4 DEF Found, Reach, SameRequest, RequestType
  <2> QED BY <1>4, <2>1, <2>2 DEF Found
<1>5. ASSUME NEW r \in Requests, Handle(r) \/ HandleUnsaved(r)
      PROVE  AnswersExecuted'
  <2>1. req[r].step # "idle" /\ Run(r)
    BY <1>5 DEF Handle, HandleUnsaved
  <2>2. /\ Len(ran') = Len(ran) + 1 /\ Len(ran) \in Nat
        /\ ran'[Len(ran')] = [key |-> req[r].key, payload |-> req[r].payload]
        /\ \A n \in 1 .. Len(ran) : ran'[n] = ran[n]
    BY <2>1, RunGrows
  <2>3. /\ req'[r].key = req[r].key /\ req'[r].payload = req[r].payload
        /\ req'[r].answer = Len(ran') /\ req'[r].step # "replayed"
        /\ \A s \in Requests \ {r} : req'[s] = req[s]
    BY <1>5 DEF Handle, HandleUnsaved, Reach, RequestType
  <2>4. stored' = stored /\ clock' = clock
    BY <1>5 DEF Handle, HandleUnsaved
  <2>5. \A n, key, payload : Executed(n, key, payload) => Executed(n, key, payload)'
    BY <2>2
  <2>6. Executed(req[r].answer, req[r].key, req[r].payload)'
    BY <2>2, <2>3
  <2> HIDE DEF Executed
  <2> QED BY <2>3, <2>4, <2>5, <2>6
<1>6. ASSUME NEW r \in Requests, Save(r) \/ SaveFails(r)
      PROVE  AnswersExecuted'
  <2>1. req[r].key \in Keys /\ Executed(req[r].answer, req[r].key, req[r].payload)
    BY <1>6 DEF Save, SaveFails
  <2>2. /\ req'[r].step = "ran" /\ \A s \in Requests \ {r} : req'[s] = req[s]
        /\ ran' = ran /\ clock' = clock
    BY <1>6 DEF Save, SaveFails, Reach, RequestType
  <2>3. \A k \in Keys : stored'[k] = stored[k] \/ (k = req[r].key /\ stored'[k] = Row(r))
    BY <1>6, <2>1 DEF Save, SaveFails
  <2> QED BY <2>1, <2>2, <2>3, IdempotencyAssumption DEF Row, Expires
<1> QED BY <1>1, <1>2, <1>3, <1>4, <1>5, <1>6 DEF IdemNext

(* Which executions a key has after a handler ran.                          *)
LEMMA OfGrows ==
    ASSUME Typed, NEW r \in Requests, req[r].step # "idle", Run(r), NEW k \in Keys
    PROVE  /\ k # req[r].key => Of(k)' = Of(k)
           /\ k = req[r].key => Of(k)' = Of(k) \cup {Len(ran')}
<1>0. /\ ran' \in Seq(Execution) /\ Len(ran') = Len(ran) + 1
      /\ ran'[Len(ran')] = [key |-> req[r].key, payload |-> req[r].payload]
      /\ \A n \in 1 .. Len(ran) : ran'[n] = ran[n]
  BY RunGrows
<1>1. /\ Len(ran) \in Nat /\ DOMAIN ran = 1 .. Len(ran)
      /\ DOMAIN ran' = 1 .. Len(ran) \cup {Len(ran')}
  BY <1>0 DEF Typed
<1>2. /\ ran'[Len(ran')].key = req[r].key /\ Len(ran') \notin DOMAIN ran
      /\ \A n \in DOMAIN ran : ran'[n] = ran[n]
  BY <1>0, <1>1
<1> QED BY <1>1, <1>2 DEF Of

LEMMA InStepStep ==
    ASSUME Typed, AnswersExecuted, \A k \in orderly : InStep(k), IdemNext, NEW k \in orderly'
    PROVE  InStep(k)'
<1> USE DEF Typed
<1>0. k \in orderly /\ k \in Keys /\ InStep(k)
  BY DEF IdemNext, Tick, Arrive, FailOpen, Found, NotFound, Handle, HandleUnsaved, Save, SaveFails
<1>1. CASE Tick
  BY <1>0, <1>1 DEF Tick, InStep, Open, Of, Live
<1>2. ASSUME NEW r \in Requests, NEW key \in Keys, NEW payload \in Payloads, Arrive(r, key, payload)
      PROVE  InStep(k)'
  <2>1. /\ req'[r].step = "lookup" /\ req'[r].key = key /\ r \notin Open
        /\ \A s \in Requests \ {r} : req'[s] = req[s]
        /\ k = key => \A o \in Open : req[o].key # k
        /\ ran' = ran /\ stored' = stored /\ clock' = clock
    BY <1>2 DEF Arrive, NotYet
  <2> QED BY <1>0, <2>1 DEF InStep, Open, Of, Live
<1>3. ASSUME NEW r \in Requests, FailOpen(r)
      PROVE  InStep(k)'
  <2>1. /\ req'[r].step = "unsaved" /\ req'[r].key = req[r].key /\ r \in Open /\ req[r].key # k
        /\ \A s \in Requests \ {r} : req'[s] = req[s]
        /\ ran' = ran /\ stored' = stored /\ clock' = clock
    BY <1>3 DEF FailOpen, Reach, Open, RequestType
  <2> QED BY <1>0, <2>1 DEF InStep, Open, Of, Live
<1>4. ASSUME NEW r \in Requests, Found(r)
      PROVE  InStep(k)'
  <2>1. /\ req'[r].step \in {"replayed", "mismatch"} /\ req[r].step = "lookup"
        /\ \A s \in Requests \ {r} : req'[s] = req[s]
        /\ ran' = ran /\ stored' = stored /\ clock' = clock
    BY <1>4 DEF Found, Reach, RequestType
  <2> QED BY <1>0, <2>1 DEF InStep, Open, Of, Live
<1>5. ASSUME NEW r \in Requests, NotFound(r)
      PROVE  InStep(k)'
  <2>1. /\ req'[r].step = "handle" /\ req'[r].key = req[r].key /\ req[r].step = "lookup"
        /\ ~Live(req[r].key) /\ r \in Open
        /\ \A s \in Requests \ {r} : req'[s] = req[s]
        /\ ran' = ran /\ stored' = stored /\ clock' = clock
    BY <1>5 DEF NotFound, Reach, Open, RequestType
  <2>2. req[r].key = k => Of(k) = {} /\ stored[k] = NoRow
    BY <1>0, <2>1 DEF InStep, Open
  <2> QED BY <1>0, <2>1, <2>2 DEF InStep, Open, Of, Live
<1>6. ASSUME NEW r \in Requests, Handle(r)
      PROVE  InStep(k)'
  <2>1. /\ req'[r].step = "save" /\ req'[r].key = req[r].key /\ req[r].step = "handle" /\ r \in Open
        /\ \A s \in Requests \ {r} : req'[s] = req[s]
        /\ stored' = stored /\ clock' = clock /\ Run(r)
    BY <1>6 DEF Handle, Open, RequestType
  <2>2. k # req[r].key => Of(k)' = Of(k)
    BY <1>0, <2>1, OfGrows
  <2>3. k = req[r].key => Of(k)' = {Len(ran')} /\ stored[k] = NoRow
    BY <1>0, <2>1, OfGrows DEF InStep
  <2>4. Live(k)' <=> Live(k)
    BY <2>1 DEF Live
  <2>5. CASE k # req[r].key
    BY <1>0, <2>1, <2>2, <2>4, <2>5 DEF InStep, Open
  <2>6. CASE k = req[r].key
    BY <1>0, <2>1, <2>3, <2>4, <2>6 DEF InStep, Open
  <2> QED BY <2>5, <2>6
<1>7. ASSUME NEW r \in Requests, HandleUnsaved(r)
      PROVE  InStep(k)'
  <2>1. /\ req'[r].step = "ran" /\ req[r].key # k /\ req[r].step # "idle"
        /\ req'[r].key = req[r].key
        /\ \A s \in Requests \ {r} : req'[s] = req[s]
        /\ stored' = stored /\ clock' = clock /\ Run(r)
    BY <1>7 DEF HandleUnsaved, Reach, RequestType
  <2>2. Of(k)' = Of(k)
    BY <1>0, <2>1, OfGrows
  <2>3. Live(k)' <=> Live(k)
    BY <2>1 DEF Live
  <2> QED BY <1>0, <2>1, <2>2, <2>3 DEF InStep, Open
<1>8. ASSUME NEW r \in Requests, Save(r)
      PROVE  InStep(k)'
  <2>1. /\ req'[r].step = "ran" /\ req[r].step = "save" /\ req'[r].key = req[r].key
        /\ req[r].key \in Keys /\ req[r].status \in Statuses /\ r \in Open
        /\ \A s \in Requests \ {r} : req'[s] = req[s]
        /\ ran' = ran /\ clock' = clock
    BY <1>8 DEF Save, Reach, Open, RequestType
  <2>2. CASE k # req[r].key
    <3>1. stored'[k] = stored[k]
      BY <1>0, <1>8, <2>2 DEF Save
    <3> QED BY <1>0, <2>1, <2>2, <3>1 DEF InStep, Open, Of, Live
  <2>3. CASE k = req[r].key
    <3>1. stored[k] = NoRow /\ stored'[k] = Row(r)
      BY <1>0, <1>8, <2>1, <2>3 DEF Save, Saves, InStep
    <3>2. Row(r) \in RowType
      BY <2>1, IdempotencyAssumption DEF Row, RowType, Expires, RequestType
    <3>3. Live(k)'
      BY <2>1, <3>1, <3>2, IdempotencyAssumption DEF Live, Row, RowType, Expires
    <3>4. \A s \in Open' : s # r /\ s \in Open
      BY <2>1 DEF Open
    <3>5. \A s \in Open' : req'[s].key # k
      BY <1>0, <2>1, <2>3, <3>4 DEF InStep, Open
    <3> QED BY <1>0, <2>1, <2>3, <3>3, <3>5 DEF InStep, Of, Open
  <2> QED BY <2>2, <2>3
<1>9. ASSUME NEW r \in Requests, SaveFails(r)
      PROVE  InStep(k)'
  <2>1. /\ req'[r].step = "ran" /\ req[r].key # k /\ req'[r].key = req[r].key
        /\ \A s \in Requests \ {r} : req'[s] = req[s]
        /\ ran' = ran /\ stored' = stored /\ clock' = clock
    BY <1>9 DEF SaveFails, Reach, RequestType
  <2> QED BY <1>0, <2>1 DEF InStep, Open, Of, Live
<1> QED BY <1>1, <1>2, <1>3, <1>4, <1>5, <1>6, <1>7, <1>8, <1>9 DEF IdemNext

LEMMA IdemInductive == IdemInv /\ [IdemNext]_idemVars => IdemInv'
<1> SUFFICES ASSUME IdemInv, [IdemNext]_idemVars PROVE IdemInv'
  OBVIOUS
<1>1. CASE IdemNext
  BY <1>1, TypedStep, AnswersStep, InStepStep DEF IdemInv
<1>2. CASE UNCHANGED idemVars
  BY <1>2 DEF idemVars, IdemInv, Typed, AnswersExecuted, Executed, InStep, Open, Of, Live
<1> QED BY <1>1, <1>2

\* Every saved answer is an execution of its own key.
THEOREM IdemInvariance == IdemSpec => []IdemInv
BY IdemInitially, IdemInductive, PTL DEF IdemSpec

-----------------------------------------------------------------------------
(* Saved answers are executions of their own key and expire within the TTL. *)
THEOREM IdemTyped == IdemSpec => []IdemTypeOK
<1>1. IdemInv => IdemTypeOK
  <2> SUFFICES ASSUME IdemInv PROVE IdemTypeOK
    OBVIOUS
  <2>1. clock \in 0 .. MaxClock /\ orderly \subseteq Keys /\ \A r \in Requests : req[r].step \in Steps
    BY IdempotencyAssumption DEF IdemInv, Typed, RequestType
  <2>2. ASSUME NEW k \in Keys, stored[k] # NoRow
        PROVE  stored[k].answer \in Of(k) /\ stored[k].expires <= clock + TTL
    <3>1. Executed(stored[k].answer, k, stored[k].payload) /\ stored[k].expires <= clock + TTL
      BY <2>2 DEF IdemInv, AnswersExecuted
    <3>2. DOMAIN ran = 1 .. Len(ran)
      BY DEF IdemInv, Typed
    <3> QED BY <3>1, <3>2 DEF Executed, Of
  <2> QED BY <2>1, <2>2 DEF IdemTypeOK
<1> QED BY <1>1, IdemInvariance, PTL

(* A request is replayed nothing but what the same request did.             *)
THEOREM Faithful == IdemSpec => []ReplayFaithful
<1>1. IdemInv => ReplayFaithful
  BY DEF IdemInv, AnswersExecuted, Executed, ReplayFaithful
<1> QED BY <1>1, IdemInvariance, PTL

(* Requests of a key that come one after the other and are saved run once.  *)
THEOREM Once == IdemSpec => []SequentialOnce
<1>1. ASSUME IdemInv, NEW k \in orderly PROVE Cardinality(Of(k)) <= 1
  <2>1. \A m, n \in Of(k) : m = n
    BY <1>1 DEF IdemInv, InStep
  <2>2. CASE Of(k) = {}
    BY <2>2, FS_EmptySet
  <2>3. ASSUME NEW n \in Of(k) PROVE Cardinality(Of(k)) <= 1
    <3>1. Of(k) = {n}
      BY <2>1, <2>3
    <3> QED BY <3>1, FS_Singleton
  <2> QED BY <2>2, <2>3
<1>2. IdemInv => SequentialOnce
  BY <1>1 DEF SequentialOnce
<1> QED BY <1>2, IdemInvariance, PTL

-----------------------------------------------------------------------------
(***************************************************************************)
(* The audit log.                                                          *)
(***************************************************************************)
(* prev is the hash of the latest of the events of e that were seen.        *)
Follows(prev, seen, e, base) ==
    /\ \A n \in seen : \E x \in OfEntity(base, e) : x.id = n
    /\ seen = {} => prev = NoHash
    /\ seen # {} =>
         \E x \in OfEntity(base, e) :
            /\ x.id \in seen /\ prev = x.hash
            /\ \A y \in OfEntity(base, e) : y.id \in seen => y.time <= x.time

(* An event was hashed from what it saw.                                    *)
Chained(row, base) ==
    /\ row.id \in Nat /\ row.time \in Nat
    /\ \A n \in row.seen : n \in Nat /\ n < row.id
    /\ \E digits \in Nat :
          row.hash = ComputeHash(row.prev, Canonical(row.id, row.entity, <<row.time, digits>>))
    /\ Follows(row.prev, row.seen, row.entity, base)

Unique(rows) == \A x, y \in rows : x.id = y.id => x = y
Apart(rows, others) == \A x \in rows, y \in others : x.id # y.id
Before(rows, n) == \A row \in rows : row.id < n
Chain(rows, base) == \A row \in rows : Chained(row, base)

TxOK(w) ==
    /\ tx[w].step \in {"closed", "open", "fetched"}
    /\ Unique(tx[w].rows) /\ Before(tx[w].rows, nextId) /\ Apart(tx[w].rows, log)
    /\ Chain(tx[w].rows, Sees(w))
    /\ \A v \in Writers \ {w} : Apart(tx[w].rows, tx[v].rows)
    /\ tx[w].step = "fetched" =>
          /\ \A n \in tx[w].seen : n \in Nat /\ n < nextId
          /\ Follows(tx[w].prev, tx[w].seen, tx[w].entity, Sees(w))

AuditInv ==
    /\ nextId \in 1 .. MaxEvents + 1
    /\ DOMAIN tx = Writers /\ \A w \in Writers : TxOK(w)
    /\ Unique(log) /\ Before(log, nextId) /\ Chain(log, log)

-----------------------------------------------------------------------------
(* Events of other ids change nothing in what was seen.                     *)
LEMMA FollowsGrows ==
    ASSUME NEW prev, NEW seen, NEW e, NEW base, NEW more, Apart(base, more),
           Follows(prev, seen, e, base)
    PROVE  Follows(prev, seen, e, base \cup more)
BY DEF Follows, Apart, OfEntity

LEMMA ChainGrows ==
    ASSUME NEW rows, NEW base, NEW more, Apart(base, more), Chain(rows, base)
    PROVE  Chain(rows, base \cup more)
BY FollowsGrows DEF Chain, Chained

(* What PreviousHashes returns is the latest of all of the entity's events. *)
LEMMA FetchFollows ==
    ASSUME NEW e, NEW base, NEW prev \in PreviousHashes(base, e)
    PROVE  Follows(prev, {row.id : row \in OfEntity(base, e)}, e, base)
BY DEF PreviousHashes, Latest, Follows, OfEntity

\* Before the first event nothing is stored and no writer holds a hash.
THEOREM AuditInitially == AuditInit => AuditInv
<1> SUFFICES ASSUME AuditInit PROVE AuditInv
  OBVIOUS
<1>1. log = {} /\ nextId = 1 /\ tx = [w \in Writers |-> Closed]
  BY DEF AuditInit
<1> QED BY <1>1, AuditAssumption DEF AuditInv, TxOK, Closed, Unique, Apart, Before, Chain

(* A step of one writer that leaves the log, the ids and the events of the  *)
(* transaction alone.                                                       *)
LEMMA OtherWriter ==
    ASSUME AuditInv, NEW w \in Writers, NEW t, tx' = [tx EXCEPT ![w] = t],
           UNCHANGED <<log, nextId>>, t.rows \subseteq tx[w].rows
    PROVE  /\ DOMAIN tx' = Writers /\ tx'[w] = t
           /\ \A v \in Writers \ {w} : tx'[v] = tx[v] /\ TxOK(v)'
           /\ TxOK(w)' => AuditInv'
<1>1. DOMAIN tx' = Writers /\ tx'[w] = t /\ \A v \in Writers \ {w} : tx'[v] = tx[v]
  BY DEF AuditInv
<1>2. ASSUME NEW v \in Writers \ {w} PROVE TxOK(v)'
  <2>1. \A u \in Writers : tx'[u].rows \subseteq tx[u].rows
    BY <1>1
  <2>2. TxOK(v) /\ tx'[v] = tx[v] /\ Sees(v)' = Sees(v)
    BY <1>1, <1>2 DEF AuditInv, Sees
  <2>3. \A u \in Writers \ {v} : Apart(tx[v].rows, tx'[u].rows)
    BY <2>1, <2>2 DEF TxOK, Apart
  <2> QED BY <2>2, <2>3 DEF TxOK
<1> QED BY <1>1, <1>2 DEF AuditInv

LEMMA TxBeginStep ==
    ASSUME AuditInv, NEW w \in Writers, BeginTx(w)
    PROVE  AuditInv'
<1>1. /\ tx' = [tx EXCEPT ![w] = Begun] /\ UNCHANGED <<log, nextId>> /\ Begun.rows = {}
      /\ Begun.step = "open"
  BY DEF BeginTx, Begun, Closed
<1>2. TxOK(w)'
  BY <1>1, OtherWriter DEF TxOK, Unique, Before, Apart, Chain
<1> QED BY <1>1, <1>2, OtherWriter

LEMMA TxRollbackStep ==
    ASSUME AuditInv, NEW w \in Writers, Rollback(w)
    PROVE  AuditInv'
<1>1. /\ tx' = [tx EXCEPT ![w] = Closed] /\ UNCHANGED <<log, nextId>> /\ Closed.rows = {}
      /\ Closed.step = "closed"
  BY DEF Rollback, Closed
<1>2. TxOK(w)'
  BY <1>1, OtherWriter DEF TxOK, Unique, Before, Apart, Chain
<1> QED BY <1>1, <1>2, OtherWriter

LEMMA TxFetchStep ==
    ASSUME AuditInv, NEW w \in Writers, NEW e \in Entities, FetchPrevious(w, e)
    PROVE  AuditInv'
<1> DEFINE seen == {row.id : row \in OfEntity(Sees(w), e)}
<1>1. PICK prev \in PreviousHashes(Sees(w), e) :
         tx' = [tx EXCEPT ![w] = [step |-> "fetched", rows |-> tx[w].rows, entity |-> e,
                                  prev |-> prev, seen |-> seen]]
  BY DEF FetchPrevious
<1>2. UNCHANGED <<log, nextId>>
  BY DEF FetchPrevious
<1>3. Follows(prev, seen, e, Sees(w))
  BY FetchFollows
<1>4. \A n \in seen : n \in Nat /\ n < nextId
  BY DEF AuditInv, TxOK, Before, Chain, Chained, Sees, OfEntity
<1> HIDE DEF seen
<1>5. /\ tx'[w] = [step |-> "fetched", rows |-> tx[w].rows, entity |-> e, prev |-> prev, seen |-> seen]
      /\ \A v \in Writers \ {w} : tx'[v] = tx[v]
  BY <1>1, <1>2, OtherWriter
<1>6. Sees(w)' = Sees(w)
  BY <1>2, <1>5 DEF Sees
<1>7. TxOK(w)'
  BY <1>2, <1>3, <1>4, <1>5, <1>6 DEF AuditInv, TxOK
<1> QED BY <1>1, <1>2, <1>5, <1>7, OtherWriter

LEMMA EventInsertStep ==
    ASSUME AuditInv, NEW w \in Writers, NEW reading \in Readings, InsertEvent(w, reading)
    PROVE  AuditInv'
<1> DEFINE t == tx[w]
           row == EventRow(t, reading)
<1>1. /\ t.step = "fetched" /\ nextId <= MaxEvents /\ nextId' = nextId + 1 /\ log' = log
      /\ nextId \in Nat /\ nextId' \in 1 .. MaxEvents + 1
  BY AuditAssumption DEF AuditInv, InsertEvent
<1>2. /\ DOMAIN tx' = Writers /\ tx'[w].rows = t.rows \cup {row} /\ tx'[w].step = "open"
      /\ \A v \in Writers \ {w} : tx'[v] = tx[v]
  BY DEF InsertEvent, AuditInv, Begun, Closed
<1>3. Sees(w)' = Sees(w) \cup {row} /\ \A v \in Writers \ {w} : Sees(v)' = Sees(v)
  BY <1>1, <1>2 DEF Sees
<1>4. row.id = nextId
  BY DEF EventRow
<1>5. /\ Before(log, nextId) /\ \A v \in Writers : Before(tx[v].rows, nextId)
      /\ Chain(log, log) /\ \A v \in Writers : Chain(tx[v].rows, Sees(v))
  BY DEF AuditInv, TxOK
<1>6. Apart(Sees(w), {row})
  BY <1>1, <1>4, <1>5 DEF Sees, Before, Apart, Chain, Chained
<1>7. Chained(row, Sees(w) \cup {row})
  <2>1. Follows(t.prev, t.seen, t.entity, Sees(w)) /\ \A n \in t.seen : n \in Nat /\ n < nextId
    BY <1>1 DEF AuditInv, TxOK
  <2>2. Follows(t.prev, t.seen, t.entity, Sees(w) \cup {row})
    BY <1>6, <2>1, FollowsGrows
  <2>3. reading = <<reading[1], reading[2]>> /\ reading[1] \in Nat /\ reading[2] \in Nat
    BY AuditAssumption
  <2>4. /\ row.id = nextId /\ row.entity = t.entity /\ row.time = reading[1] /\ row.prev = t.prev
        /\ row.seen = t.seen /\ row.hash = ComputeHash(t.prev, Canonical(nextId, t.entity, reading))
    BY DEF EventRow
  <2> HIDE DEF row, t
  <2> QED BY <1>1, <2>1, <2>2, <2>3, <2>4 DEF Chained
<1> HIDE DEF row
<1>8. Chain(t.rows \cup {row}, Sees(w) \cup {row})
  BY <1>5, <1>6, <1>7, ChainGrows DEF Chain
<1>9. TxOK(w)'
  <2>1. Unique(t.rows \cup {row}) /\ Before(t.rows \cup {row}, nextId') /\ Apart(t.rows \cup {row}, log)
    BY <1>1, <1>4, <1>5 DEF AuditInv, TxOK, Unique, Before, Apart, Chain, Chained
  <2>2. \A v \in Writers \ {w} : Apart(t.rows \cup {row}, tx[v].rows)
    BY <1>1, <1>4, <1>5 DEF AuditInv, TxOK, Before, Apart, Chain, Chained
  <2> QED BY <1>1, <1>2, <1>3, <1>8, <2>1, <2>2 DEF TxOK
<1>10. ASSUME NEW v \in Writers \ {w} PROVE TxOK(v)'
  <2>1. TxOK(v) /\ tx'[v] = tx[v] /\ Sees(v)' = Sees(v)
    BY <1>2, <1>3 DEF AuditInv
  <2>2. Before(tx[v].rows, nextId')
    BY <1>1, <1>5 DEF Before, Chain, Chained
  <2>3. ASSUME NEW u \in Writers \ {v} PROVE Apart(tx[v].rows, tx'[u].rows)
    BY <1>2, <1>4, <1>5, <2>1, <2>3 DEF TxOK, Apart, Before, Chain, Chained
  <2>4. tx[v].step = "fetched" => \A n \in tx[v].seen : n \in Nat /\ n < nextId'
    BY <1>1, <2>1 DEF TxOK
  <2> QED BY <1>1, <2>1, <2>2, <2>3, <2>4 DEF TxOK
<1>11. Before(log, nextId')
  BY <1>1, <1>5 DEF Before, Chain, Chained
<1> QED BY <1>1, <1>2, <1>9, <1>10, <1>11 DEF AuditInv

LEMMA TxCommitStep ==
    ASSUME AuditInv, NEW w \in Writers, Commit(w)
    PROVE  AuditInv'
<1>1. /\ log' = log \cup tx[w].rows /\ nextId' = nextId /\ DOMAIN tx' = Writers
      /\ tx'[w].step = "closed" /\ tx'[w].rows = {} /\ \A v \in Writers \ {w} : tx'[v] = tx[v]
  BY DEF Commit, AuditInv, Closed
<1>2. \A v \in Writers : TxOK(v)
  BY DEF AuditInv
<1>3. Unique(log') /\ Before(log', nextId) /\ Chain(log', log')
  <2>1. Apart(log, tx[w].rows)
    BY <1>2 DEF TxOK, Apart
  <2>2. Chain(log, log') /\ Chain(tx[w].rows, log')
    BY <1>1, <1>2, <2>1, ChainGrows DEF AuditInv, TxOK, Sees
  <2> QED BY <1>1, <1>2, <2>1, <2>2 DEF AuditInv, TxOK, Unique, Before, Apart, Chain
<1>4. TxOK(w)'
  BY <1>1 DEF TxOK, Unique, Before, Apart, Chain
<1>5. ASSUME NEW v \in Writers \ {w} PROVE TxOK(v)'
  <2>1. tx'[v] = tx[v] /\ TxOK(v) /\ Apart(tx[v].rows, tx[w].rows) /\ Apart(tx[w].rows, log)
    BY <1>1, <1>2 DEF TxOK
  <2>2. Sees(v)' = Sees(v) \cup tx[w].rows /\ Apart(Sees(v), tx[w].rows) /\ Apart(tx[v].rows, log')
    BY <1>1, <2>1 DEF Sees, Apart, TxOK
  <2>3. Chain(tx[v].rows, Sees(v)')
    BY <2>1, <2>2, ChainGrows DEF TxOK
  <2>4. tx[v].step = "fetched" => Follows(tx[v].prev, tx[v].seen, tx[v].entity, Sees(v)')
    BY <2>1, <2>2, FollowsGrows DEF TxOK
  <2>5. \A u \in Writers \ {v} : Apart(tx[v].rows, tx'[u].rows)
    BY <1>1, <2>1 DEF TxOK, Apart
  <2> QED BY <1>1, <2>1, <2>2, <2>3, <2>4, <2>5 DEF TxOK
<1> QED BY <1>1, <1>3, <1>4, <1>5 DEF AuditInv

LEMMA AuditInductive == AuditInv /\ [AuditNext]_auditVars => AuditInv'
<1> SUFFICES ASSUME AuditInv, [AuditNext]_auditVars PROVE AuditInv'
  OBVIOUS
<1>1. CASE AuditNext
  BY <1>1, TxBeginStep, TxCommitStep, TxRollbackStep, TxFetchStep, EventInsertStep DEF AuditNext
<1>2. CASE UNCHANGED auditVars
  BY <1>2 DEF auditVars, AuditInv, TxOK, Sees
<1> QED BY <1>1, <1>2

\* What a transaction fetched is still the end of the chain it saw.
THEOREM AuditInvariance == AuditSpec => []AuditInv
BY AuditInitially, AuditInductive, PTL DEF AuditSpec

-----------------------------------------------------------------------------
(* Events keep their identity, and carry the hash they name as previous.    *)
THEOREM AuditTyped == AuditSpec => []AuditTypeOK
<1>1. AuditInv => AuditTypeOK
  <2> SUFFICES ASSUME AuditInv PROVE AuditTypeOK
    OBVIOUS
  <2>1. ASSUME NEW row \in log PROVE row.id < nextId /\ row.hash[1] = row.prev
    <3>1. row.id < nextId /\ Chained(row, log)
      BY DEF AuditInv, Before, Chain
    <3>2. PICK c : row.hash = <<row.prev, c>>
      BY <3>1 DEF Chained, ComputeHash
    <3> QED BY <3>1, <3>2
  <2>2. \A w \in Writers : tx[w].step \in {"closed", "open", "fetched"}
    BY DEF AuditInv, TxOK
  <2> QED BY <2>1, <2>2 DEF AuditInv, AuditTypeOK, Unique
<1> QED BY <1>1, AuditInvariance, PTL

(* Events written one after the other are one chain.                        *)
THEOREM SerialLinked == AuditSpec => []SerialChainLinked
<1>1. ASSUME AuditInv, NEW e \in Entities, Serial(e), NEW y \in OfEntity(log, e)
      PROVE  /\ BeforeIn(log, y) = {} => y.prev = NoHash
             /\ \A x \in Latest(BeforeIn(log, y)) : y.prev = x.hash
  <2> DEFINE rows == OfEntity(log, e)
             before == BeforeIn(log, y)
  <2>1. \A x \in rows : /\ Chained(x, log) /\ x.entity = e /\ x \in log
                        /\ x.id \in Nat /\ x.time \in Nat
    BY <1>1 DEF AuditInv, Chain, Chained, OfEntity
  <2>2. \A x \in rows : x # y => \/ x.id \in y.seen /\ x.time < y.time
                                 \/ y.id \in x.seen /\ y.time < x.time
    BY <1>1 DEF Serial
  <2>3. Follows(y.prev, y.seen, e, log) /\ \A n \in y.seen : n \in Nat /\ n < y.id
    BY <1>1, <2>1 DEF Chained
  <2>4. before = {x \in rows : x.id \in y.seen}
    <3>1. \A x \in rows : x.id \in y.seen <=> x.time < y.time
      BY <1>1, <2>1, <2>2, <2>3 DEF Chained
    <3> QED BY <1>1, <2>1, <3>1 DEF BeforeIn, OfEntity
  <2>5. CASE y.seen = {}
    BY <2>3, <2>4, <2>5 DEF Follows, Latest
  <2>6. CASE y.seen # {}
    <3>1. PICK last \in rows : /\ last.id \in y.seen /\ y.prev = last.hash
                               /\ \A z \in rows : z.id \in y.seen => z.time <= last.time
      BY <2>3, <2>6 DEF Follows
    <3>2. last \in before
      BY <2>4, <3>1
    <3>3. ASSUME NEW x \in Latest(before) PROVE x = last
      <4>1. x \in rows /\ x.id \in y.seen /\ last.time <= x.time
        BY <2>4, <3>2, <3>3 DEF Latest
      <4>2. x.time = last.time
        BY <2>1, <3>1, <4>1
      <4> QED BY <1>1, <2>1, <3>1, <4>1, <4>2 DEF Serial
    <3> QED BY <3>1, <3>2, <3>3
  <2> QED BY <2>5, <2>6
<1>2. AuditInv => SerialChainLinked
  BY <1>1 DEF SerialChainLinked
<1> QED BY <1>2, AuditInvariance, PTL

-----------------------------------------------------------------------------
(* Of a set of events with times, one is the earliest.                      *)
LEMMA AnEarliest ==
    ASSUME NEW rows, rows # {}, \A row \in rows : row.time \in Nat
    PROVE  Earliest(rows) # {}
<1> DEFINE times == {row.time : row \in rows}
<1>1. times \subseteq Nat /\ times # {}
  OBVIOUS
<1>2. PICK n \in times : \A m \in times : ~ <<m, n>> \in OpToRel(<, Nat)
  BY <1>1, NatLessThanWellFounded, WFMin
<1>3. PICK row \in rows : row.time = n
  OBVIOUS
<1>4. ASSUME NEW other \in rows PROVE other.time >= row.time
  <2>1. other.time \in times /\ other.time \in Nat /\ n \in Nat
    BY <1>1
  <2>2. <<other.time, n>> \notin OpToRel(<, Nat)
    BY <1>2, <2>1
  <2>3. ~(other.time < n)
    BY <2>1, <2>2 DEF OpToRel
  <2> QED BY <1>3, <2>1, <2>3
<1> QED BY <1>4 DEF Earliest

(* An event that others follow cannot be taken out unnoticed.               *)
THEOREM GapsNoticed == AuditSpec => []GapNoticed
<1>1. ASSUME AuditInv, VerifyHashChain(log), NEW row \in log,
             NEW later \in OfEntity(log, row.entity), later.time > row.time,
             VerifyHashChain(log \ {row})
      PROVE  FALSE
  <2> DEFINE e == row.entity
             after == {x \in OfEntity(log, e) : x.time > row.time}
  <2>1. \A x \in log : x.time \in Nat /\ Chained(x, log)
    BY <1>1 DEF AuditInv, Chain, Chained
  <2>2. PICK x \in after : \A y \in after : y.time >= x.time
    <3>1. after # {} /\ \A y \in after : y.time \in Nat
      BY <1>1, <2>1 DEF OfEntity
    <3> QED BY <3>1, AnEarliest DEF Earliest
  <2>3. x \in log /\ x.entity = e /\ row.time < x.time /\ x # row
    BY <1>1, <2>1, <2>2 DEF OfEntity
  <2>4. x.hash = Recomputed(x, row.hash)
    <3>1. PICK prev \in PreviousHashes(BeforeIn(log, x), e) : x.hash = Recomputed(x, prev)
      BY <1>1, <2>3 DEF VerifyHashChain, RowVerifies
    <3> DEFINE own == OfEntity(BeforeIn(log, x), e)
    <3>2. row \in own /\ \A y \in own : y \in log /\ y.entity = e /\ y.time < x.time
      BY <2>3 DEF BeforeIn, OfEntity
    <3>3. \A y \in own : y.time <= row.time
      <4> SUFFICES ASSUME NEW y \in own, ~ (y.time <= row.time) PROVE FALSE
        OBVIOUS
      <4>1. y \in after
        BY <2>1, <3>2 DEF OfEntity
      <4> QED BY <2>1, <2>2, <2>3, <3>2, <4>1
    <3>4. \A y \in Latest(own) : y = row
      BY <1>1, <2>1, <3>2, <3>3 DEF Latest, VerifyHashChain, Ordered
    <3>5. prev \in {y.hash : y \in Latest(own)}
      BY <3>1, <3>2 DEF PreviousHashes
    <3> HIDE DEF own
    <3> QED BY <3>1, <3>4, <3>5
  <2>5. PICK prev \in PreviousHashes(BeforeIn(log \ {row}, x), e) : x.hash = Recomputed(x, prev)
    BY <1>1, <2>3 DEF VerifyHashChain, RowVerifies
  <2>6. prev = row.hash
    BY <2>4, <2>5 DEF Recomputed, ComputeHash
  <2>7. prev = NoHash \/ \E y \in log \ {row} : prev = y.hash
    BY <2>5 DEF PreviousHashes, Latest, OfEntity, BeforeIn
  <2>8. \A y \in log : y.hash # NoHash /\ y.hash[2].event_id = y.id
    <3> SUFFICES ASSUME NEW y \in log PROVE y.hash # NoHash /\ y.hash[2].event_id = y.id
      OBVIOUS
    <3>1. PICK digits \in Nat :
             y.hash = <<y.prev, Canonical(y.id, y.entity, <<y.time, digits>>)>>
      BY <2>1 DEF Chained, ComputeHash
    <3>2. DOMAIN y.hash = 1 .. 2 /\ DOMAIN NoHash = 1 .. 0
      BY <3>1 DEF NoHash
    <3>3. y.hash # NoHash
      <4>1. 1 \in DOMAIN y.hash /\ 1 \notin DOMAIN NoHash
        BY <3>2
      <4> QED BY <4>1
    <3> QED BY <3>1, <3>3 DEF Canonical
  <2>9. \A y \in log : y.hash = row.hash => y.id = row.id
    BY <2>8
  <2> QED BY <1>1, <2>6, <2>7, <2>8, <2>9 DEF AuditInv, Unique
<1>2. AuditInv => GapNoticed
  BY <1>1 DEF GapNoticed
<1> QED BY <1>2, AuditInvariance, PTL
=============================================================================
