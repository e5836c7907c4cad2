------------------------------ MODULE Listings ------------------------------
(***************************************************************************)
(* List endpoints and their cursors (common/pagination, common/listquery   *)
(* and the List functions of every package).                               *)
(*                                                                         *)
(* A client walks a list: it asks for a page, keeps the cursor the page    *)
(* came with, and asks again while there is more.  Between two pages rows  *)
(* are inserted and soft-deleted.  Each package chooses three things, in   *)
(* three functions: the ORDER BY and the column its cursor is compared     *)
(* with (repository), the column the next cursor is taken from (service),  *)
(* and what a request may ask for (handler).                               *)
(*                                                                         *)
(* A row has the columns lists are ordered by: id; kode, its unique        *)
(* business key; grup, a business key other rows share (rating, scenario,  *)
(* year); tanggal, a business date; dibuat, the time of its creation.  A   *)
(* filter, a search term or "my own rows" is the set of rows it selects.   *)
(***************************************************************************)
EXTENDS Integers, Sequences, FiniteSets, FiniteSetsExt

CONSTANTS
    Rows,           \* every row there may ever be
    FirstRows,      \* the rows there are when the walk begins
    Kinds,          \* the lists that are walked
    Sorts,          \* the sort parameters a client may send, <<>> for none
    Filters,        \* sets of rows a filter may select
    Asked,          \* the limit parameters a client may send
    Second,         \* a second, in units of dibuat
    DefaultLimit, MaxLimit,
    MaxChanges      \* bound: inserts and deletions during one walk

(* The primary key of a table, and the business key of the rows there are.  *)
ASSUME ListingsAssumption ==
    /\ FirstRows \subseteq Rows /\ Filters \subseteq SUBSET Rows /\ IsFiniteSet(Rows)
    /\ Rows \subseteq [id : Nat, kode : Nat, grup : Nat, tanggal : Nat, dibuat : Nat]
    /\ \A x, y \in Rows : x.id = y.id => x = y
    /\ \A x, y \in FirstRows : x.kode = y.kode => x = y
    /\ Asked \subseteq Int
    /\ MaxLimit \in Nat /\ DefaultLimit \in 1 .. MaxLimit /\ Second \in Nat \ {0}

VARIABLES
    table,      \* the rows that are not deleted
    erased,     \* the rows that are soft-deleted
    steady,     \* the rows that were visible to the walk from its beginning until now
    walk,       \* the client's walk
    changes     \* bound counter

listVars == <<table, erased, steady, walk, changes>>

-----------------------------------------------------------------------------
(* common/listquery and common/pagination.                                  *)

Asc(c) == <<c, "asc">>
Desc(c) == <<c, "desc">>

(* A history cursor is a time formatted to the second.                      *)
Column(row, c) == IF c = "detik" THEN Second * (row.dibuat \div Second) ELSE row[c]

Beyond(x, y, dir) == IF dir = "asc" THEN x > y ELSE x < y

(* ToSQL: the client's sort, if it is one, replaces the list's own.         *)
OrderBy(sort, own) == IF sort = <<>> THEN own ELSE sort

Precedes(a, b, order) ==
    \E k \in DOMAIN order :
        /\ \A j \in 1 .. k - 1 : Column(a, order[j][1]) = Column(b, order[j][1])
        /\ Beyond(Column(b, order[k][1]), Column(a, order[k][1]), order[k][2])

ParseLimitUncapped(asked) == IF asked < 1 THEN DefaultLimit ELSE asked
ParseLimit(asked) ==
    IF asked < 1 THEN DefaultLimit ELSE IF asked > MaxLimit THEN MaxLimit ELSE asked

(* The repositories that check the limit once more fall back to the default.*)
RepoLimit(asked) == IF asked < 1 \/ asked > MaxLimit THEN DefaultLimit ELSE asked

(* What a repository makes of a request: rows strictly after the cursor in  *)
(* the columns keys, in direction dir; no keys: the cursor is ignored.      *)
Keyset(keys, dir, sort, own) == [keys |-> keys, dir |-> dir, order |-> OrderBy(sort, own)]

AfterInclusive(row, cursor, list) ==
    \/ list.keys = <<>> \/ cursor = <<>>
    \/ \E k \in DOMAIN list.keys :
          /\ \A j \in 1 .. k - 1 : Column(row, list.keys[j]) = cursor[j]
          /\ ~Beyond(cursor[k], Column(row, list.keys[k]), list.dir)
After(row, cursor, list) ==
    \/ list.keys = <<>> \/ cursor = <<>>
    \/ \E k \in DOMAIN list.keys :
          /\ \A j \in 1 .. k - 1 : Column(row, list.keys[j]) = cursor[j]
          /\ Beyond(Column(row, list.keys[k]), cursor[k], list.dir)

EncodeCursor(row, columns) == [k \in DOMAIN columns |-> Column(row, columns[k])]

(* BuildResult: one row more than the limit is fetched; whether it is there *)
(* is whether there is more, and the cursor is taken from the row before it.*)
HasMore(fetched, limit) == fetched > limit

(* LIMIT n ORDER BY: rows no other candidate has to come before.            *)
IsPrefix(page, cand, order) ==
    \A y \in page, x \in cand \ page : ~Precedes(x, y, order)
LastOf(page, order) == {y \in page : \A x \in page : ~Precedes(y, x, order)}

-----------------------------------------------------------------------------
(* Repositories: cursor and order.                                          *)

CoaList(sort) == Keyset(<<"kode">>, "asc", sort, <<Asc("kode")>>)
CounterpartyList(sort) == Keyset(<<"kode">>, "asc", sort, <<Asc("kode")>>)
MataUangList(sort) == Keyset(<<"kode">>, "asc", sort, <<Asc("kode")>>)
PortofolioList(sort) == Keyset(<<"kode">>, "asc", sort, <<Asc("kode")>>)
BobotList(sort) == Keyset(<<"id">>, "asc", sort, <<Asc("grup"), Desc("tanggal")>>)
PdList(sort) == Keyset(<<"id">>, "asc", sort, <<Asc("grup"), Desc("tanggal")>>)
LgdList(sort) == Keyset(<<"id">>, "asc", sort, <<Asc("grup"), Desc("tanggal")>>)
PeriodeList(sort) == Keyset(<<"id">>, "asc", sort, <<Asc("grup"), Asc("tanggal")>>)
KursList(sort) == Keyset(<<"id">>, "asc", sort, <<Desc("tanggal"), Asc("grup")>>)
ImpactPdList(sort) == Keyset(<<"id">>, "asc", sort, <<Desc("dibuat"), Asc("id")>>)
ImpactMevList(sort) == Keyset(<<"id">>, "asc", sort, <<Desc("dibuat"), Asc("id")>>)
LpsCoverageList(sort) == Keyset(<<"id">>, "asc", sort, <<Desc("dibuat"), Asc("id")>>)
InstrumenList(sort) == Keyset(<<"id">>, "asc", sort, <<Desc("dibuat")>>)
MappingList(sort) == Keyset(<<"id">>, "asc", sort, <<Desc("dibuat")>>)
RatingList(sort) == Keyset(<<"kode">>, "asc", sort, <<Desc("tanggal")>>)
RatingByCounterparty == Keyset(<<"kode">>, "asc", <<>>, <<Desc("tanggal")>>)

(* ListAuditHistory: events strictly older than the cursor, newest first.   *)
(* (The two impact packages name columns aud.audit_log does not have; their *)
(* histories are errors and not modelled.)                                  *)
AuditHistory == Keyset(<<"dibuat">>, "desc", <<>>, <<Desc("dibuat")>>)
CoaHistory == AuditHistory
CounterpartyHistory == AuditHistory
MataUangHistory == AuditHistory
PortofolioHistory == AuditHistory
BobotHistory == AuditHistory
PdHistory == AuditHistory
LgdHistory == AuditHistory
PeriodeHistory == AuditHistory
KursHistory == AuditHistory
LpsCoverageHistory == AuditHistory
InstrumenHistory == AuditHistory
MappingHistory == AuditHistory
RatingHistory == AuditHistory

(* The lists of the measurement packages.  The schedule is listed with its  *)
(* superseded rows, which may share a number (grup); the direction follows  *)
(* the client's sort in the last three.  The three lists of staging hand    *)
(* buildWhere a clause that brings its own AND, and buildWhere adds another:*)
(* with a cursor the statement is no SQL.                                   *)
Refused == <<"refused">>
Dir(sort, own) == IF sort = <<>> THEN own ELSE sort[1][2]
ScheduleList(sort) == Keyset(<<"grup">>, "asc", sort, <<Asc("grup")>>)
AmendmentList(sort) == Keyset(<<"dibuat">>, "desc", sort, <<Desc("dibuat")>>)
AmendmentQueue(sort) == Keyset(<<"dibuat">>, "desc", sort, <<Desc("dibuat")>>)
DriftReportList(sort) == Keyset(<<"dibuat">>, "desc", sort, <<Desc("tanggal"), Desc("dibuat")>>)
DpdList(sort) == Keyset(Refused, "desc", sort, <<Desc("kode")>>)
StageHistoryList(sort) == Keyset(Refused, "desc", sort, <<Desc("tanggal"), Desc("dibuat")>>)
StageOverrideList(sort) == Keyset(Refused, "desc", sort, <<Desc("dibuat")>>)
ResultLineList(sort) == Keyset(<<"id">>, "asc", sort, <<Asc("dibuat"), Asc("id")>>)
CalcRunList == Keyset(<<>>, "desc", <<>>, <<Desc("dibuat")>>)
LpsOverrideList(sort) == Keyset(<<"id">>, Dir(sort, "desc"), sort, <<Desc("dibuat")>>)
PreviewList(sort) == Keyset(<<"kode">>, Dir(sort, "asc"), sort, <<Asc("kode")>>)
CompositionList(sort) ==
    LET dir == Dir(sort, "desc")
        col == IF sort = <<>> THEN "dibuat" ELSE sort[1][1]
    IN Keyset(<<col, "id">>, dir, <<>>, <<<<col, dir>>, <<"id", dir>>>>)

-----------------------------------------------------------------------------
(* Services: the columns the next cursor is taken from.                     *)

CoaNext == <<"kode">>
CounterpartyNext == <<"kode">>
MataUangNext == <<"kode">>
PortofolioNext == <<"kode">>
BobotNext == <<"id">>
PdNext == <<"id">>
LgdNext == <<"id">>
PeriodeNext == <<"id">>
KursNext == <<"id">>
ImpactPdNext == <<"id">>
ImpactMevNext == <<"id">>
LpsCoverageNext == <<"id">>
InstrumenNext == <<"id">>
MappingNext == <<"id">>
RatingNext == <<"kode">>
RatingByCounterpartyNext == <<"kode">>

(* The history handlers: the event time the repository formatted.           *)
CoaHistoryNext == <<"detik">>
CounterpartyHistoryNext == <<"detik">>
MataUangHistoryNext == <<"detik">>
PortofolioHistoryNext == <<"detik">>
BobotHistoryNext == <<"detik">>
PdHistoryNext == <<"detik">>
LgdHistoryNext == <<"detik">>
PeriodeHistoryNext == <<"detik">>
KursHistoryNext == <<"detik">>
LpsCoverageHistoryNext == <<"detik">>
InstrumenHistoryNext == <<"detik">>
MappingHistoryNext == <<"detik">>
RatingHistoryNext == <<"detik">>

-----------------------------------------------------------------------------
(* Handlers: what a request may ask for.  r is the request as it arrives.   *)

(* ParseParams, ParseFromRequest and, with the permission to read the audit *)
(* log, the deleted rows.                                                   *)
MasterRequest(r, deletedOnRequest) ==
    [sort |-> r.sort, match |-> r.match, limit |-> ParseLimit(r.asked),
     deleted |-> deletedOnRequest /\ r.deleted /\ "audit_log.read" \in r.perms]
HistoryRequest(r) ==
    [sort |-> <<>>, match |-> Rows, limit |-> ParseLimit(r.asked), deleted |-> FALSE]

CoaRequest(r) == MasterRequest(r, TRUE)
CounterpartyRequest(r) == MasterRequest(r, TRUE)
MataUangRequest(r) == MasterRequest(r, TRUE)
PortofolioRequest(r) == MasterRequest(r, TRUE)
BobotRequest(r) == MasterRequest(r, TRUE)
PdRequest(r) == MasterRequest(r, TRUE)
LgdRequest(r) == MasterRequest(r, TRUE)
PeriodeRequest(r) == MasterRequest(r, TRUE)
KursRequest(r) == MasterRequest(r, TRUE)
ImpactPdRequest(r) == MasterRequest(r, TRUE)
ImpactMevRequest(r) == MasterRequest(r, TRUE)
LpsCoverageRequest(r) == MasterRequest(r, TRUE)
InstrumenRequest(r) == MasterRequest(r, TRUE)
MappingRequest(r) == MasterRequest(r, TRUE)
RatingRequest(r) == MasterRequest(r, FALSE)
RatingByCounterpartyRequest(r) == [MasterRequest(r, FALSE) EXCEPT !.sort = <<>>]
Plain(r, limit) == [sort |-> r.sort, match |-> r.match, limit |-> limit, deleted |-> FALSE]
ScheduleRequest(r) == Plain(r, RepoLimit(r.asked))
AmendmentRequest(r) == Plain(r, RepoLimit(r.asked))
QueueRequest(r) == Plain(r, RepoLimit(r.asked))
DriftReportRequest(r) == Plain(r, RepoLimit(r.asked))
DpdRequest(r) == Plain(r, ParseLimit(r.asked))
StageHistoryRequest(r) == Plain(r, ParseLimit(r.asked))
StageOverrideRequest(r) == Plain(r, ParseLimit(r.asked))
ResultLineRequest(r) == [Plain(r, ParseLimit(r.asked)) EXCEPT !.sort = <<>>]
CalcRunRequest(r) == [Plain(r, DefaultLimit) EXCEPT !.sort = <<>>]
LpsOverrideRequest(r) == Plain(r, ParseLimit(r.asked))
PreviewRequest(r) == Plain(r, RepoLimit(r.asked))
CompositionRequest(r) == Plain(r, ParseLimit(r.asked))

-----------------------------------------------------------------------------
(* The lists by name: what is asked, how it is fetched, what comes next.    *)

MasterRequests(r) ==
    [coa |-> CoaRequest(r), counterparty |-> CounterpartyRequest(r),
     matauang |-> MataUangRequest(r), portofolio |-> PortofolioRequest(r),
     bobot |-> BobotRequest(r), pd |-> PdRequest(r), lgd |-> LgdRequest(r),
     periode |-> PeriodeRequest(r), kurs |-> KursRequest(r), impactpd |-> ImpactPdRequest(r),
     impactmev |-> ImpactMevRequest(r), lps |-> LpsCoverageRequest(r),
     instrumen |-> InstrumenRequest(r), mapping |-> MappingRequest(r),
     rating |-> RatingRequest(r), ratingOf |-> RatingByCounterpartyRequest(r)]

MasterFetch(sort) ==
    [coa |-> CoaList(sort), counterparty |-> CounterpartyList(sort),
     matauang |-> MataUangList(sort), portofolio |-> PortofolioList(sort),
     bobot |-> BobotList(sort), pd |-> PdList(sort), lgd |-> LgdList(sort),
     periode |-> PeriodeList(sort), kurs |-> KursList(sort), impactpd |-> ImpactPdList(sort),
     impactmev |-> ImpactMevList(sort), lps |-> LpsCoverageList(sort),
     instrumen |-> InstrumenList(sort), mapping |-> MappingList(sort),
     rating |-> RatingList(sort), ratingOf |-> RatingByCounterparty]

MasterNext ==
    [coa |-> CoaNext, counterparty |-> CounterpartyNext, matauang |-> MataUangNext,
     portofolio |-> PortofolioNext, bobot |-> BobotNext, pd |-> PdNext, lgd |-> LgdNext,
     periode |-> PeriodeNext, kurs |-> KursNext, impactpd |-> ImpactPdNext,
     impactmev |-> ImpactMevNext, lps |-> LpsCoverageNext, instrumen |-> InstrumenNext,
     mapping |-> MappingNext, rating |-> RatingNext, ratingOf |-> RatingByCounterpartyNext]

HistoryFetch ==
    [coaH |-> CoaHistory, counterpartyH |-> CounterpartyHistory, matauangH |-> MataUangHistory,
     portofolioH |-> PortofolioHistory, bobotH |-> BobotHistory, pdH |-> PdHistory,
     lgdH |-> LgdHistory, periodeH |-> PeriodeHistory, kursH |-> KursHistory,
     lpsH |-> LpsCoverageHistory, instrumenH |-> InstrumenHistory,
     mappingH |-> MappingHistory, ratingH |-> RatingHistory]

HistoryNext ==
    [coaH |-> CoaHistoryNext, counterpartyH |-> CounterpartyHistoryNext,
     matauangH |-> MataUangHistoryNext, portofolioH |-> PortofolioHistoryNext,
     bobotH |-> BobotHistoryNext, pdH |-> PdHistoryNext, lgdH |-> LgdHistoryNext,
     periodeH |-> PeriodeHistoryNext, kursH |-> KursHistoryNext,
     lpsH |-> LpsCoverageHistoryNext, instrumenH |-> InstrumenHistoryNext,
     mappingH |-> MappingHistoryNext, ratingH |-> RatingHistoryNext]

MeasurementRequests(r) ==
    [schedule |-> ScheduleRequest(r), amendment |-> AmendmentRequest(r),
     queue |-> QueueRequest(r), drift |-> DriftReportRequest(r), dpd |-> DpdRequest(r),
     stage |-> StageHistoryRequest(r), stageOverride |-> StageOverrideRequest(r),
     line |-> ResultLineRequest(r), run |-> CalcRunRequest(r),
     lpsOverride |-> LpsOverrideRequest(r), preview |-> PreviewRequest(r),
     composition |-> CompositionRequest(r)]

MeasurementFetch(sort) ==
    [schedule |-> ScheduleList(sort), amendment |-> AmendmentList(sort),
     queue |-> AmendmentQueue(sort), drift |-> DriftReportList(sort), dpd |-> DpdList(sort),
     stage |-> StageHistoryList(sort), stageOverride |-> StageOverrideList(sort),
     line |-> ResultLineList(sort), run |-> CalcRunList,
     lpsOverride |-> LpsOverrideList(sort), preview |-> PreviewList(sort),
     composition |-> CompositionList(sort)]

(* These repositories take the next cursor themselves.                      *)
MeasurementNext ==
    [schedule |-> <<"grup">>, amendment |-> <<"dibuat">>, queue |-> <<"dibuat">>,
     drift |-> <<"dibuat">>, dpd |-> <<"kode">>, stage |-> <<"dibuat">>,
     stageOverride |-> <<"dibuat">>, line |-> <<"id">>, run |-> <<"id">>,
     lpsOverride |-> <<"id">>, preview |-> <<"kode">>, composition |-> <<"dibuat", "id">>]

Request(kind, r) ==
    IF kind \in DOMAIN MasterNext THEN MasterRequests(r)[kind]
    ELSE IF kind \in DOMAIN HistoryNext THEN HistoryRequest(r)
    ELSE MeasurementRequests(r)[kind]
Fetch(kind, sort) ==
    IF kind \in DOMAIN MasterNext THEN MasterFetch(sort)[kind]
    ELSE IF kind \in DOMAIN HistoryNext THEN HistoryFetch[kind]
    ELSE MeasurementFetch(sort)[kind]
NextColumns(kind) ==
    IF kind \in DOMAIN MasterNext THEN MasterNext[kind]
    ELSE IF kind \in DOMAIN HistoryNext THEN HistoryNext[kind] ELSE MeasurementNext[kind]

ASSUME KindsAssumption ==
    Kinds \subseteq DOMAIN MasterNext \cup DOMAIN HistoryNext \cup DOMAIN MeasurementNext

-----------------------------------------------------------------------------
NoWalk == [phase |-> "idle"]

ListInit ==
    /\ table = FirstRows /\ erased = {} /\ steady = {} /\ changes = 0
    /\ walk = NoWalk

Visible(w) == w.q.match \cap (table \cup (IF w.q.deleted THEN erased ELSE {}))

Begin(kind, r) ==
    /\ walk = NoWalk
    /\ walk' = [phase |-> "walking", kind |-> kind, q |-> Request(kind, r), cursor |-> <<>>,
                seen |-> [row \in Rows |-> 0]]
    /\ steady' = Visible(walk')
    /\ UNCHANGED <<table, erased, changes>>

CursorRefused == walk.cursor # <<>> /\ Fetch(walk.kind, walk.q.sort).keys = Refused

(* The database refuses the statement, and the client is told of an error.  *)
PageFails ==
    /\ walk.phase = "walking" /\ CursorRefused
    /\ walk' = [walk EXCEPT !.phase = "failed"]
    /\ UNCHANGED <<table, erased, steady, changes>>

(* The page shown, its last row and the cursor for the next one.  Where the *)
(* order leaves rows tied the database may return any of them.              *)
CursorRowFetched(page, extra, order) == extra
CursorRow(page, extra, order) == LastOf(page, order)

NextPage ==
    /\ walk.phase = "walking" /\ ~CursorRefused
    /\ LET list == Fetch(walk.kind, walk.q.sort)
           cand == {row \in Visible(walk) : After(row, walk.cursor, list)}
           more == HasMore(Cardinality(cand), walk.q.limit)
           size == IF more THEN walk.q.limit ELSE Cardinality(cand)
           fetched == IF more THEN walk.q.limit + 1 ELSE Cardinality(cand)
       IN \E rows \in kSubset(fetched, cand) :
          /\ IsPrefix(rows, cand, list.order)
          /\ \E page \in kSubset(size, rows) :
             /\ IsPrefix(page, rows, list.order)
             /\ \E last \in IF more THEN CursorRow(page, rows \ page, list.order) ELSE {<<>>} :
                walk' = [walk EXCEPT
                    !.phase = IF more THEN "walking" ELSE "done",
                    !.cursor = IF more THEN EncodeCursor(last, NextColumns(walk.kind)) ELSE <<>>,
                    !.seen = [row \in Rows |-> IF row \in page /\ @[row] < 2 THEN @[row] + 1
                                               ELSE @[row]]]
    /\ UNCHANGED <<table, erased, steady, changes>>

(* The tables whose unique index leaves deleted rows out: a business key is *)
(* free again once its row is deleted.                                      *)
FreesKode == {"counterparty", "portofolio", "instrumen", "preview"}
Occupied == table \cup (IF walk.kind \in FreesKode THEN {} ELSE erased)

Insert(row) ==
    /\ walk.phase = "walking" /\ changes < MaxChanges
    /\ row \notin table \cup erased
    /\ \A other \in Occupied : other.kode # row.kode
    /\ table' = table \cup {row} /\ changes' = changes + 1
    /\ UNCHANGED <<erased, steady, walk>>

SoftDelete(row) ==
    /\ walk.phase = "walking" /\ changes < MaxChanges
    /\ row \in table
    /\ table' = table \ {row} /\ erased' = erased \cup {row} /\ changes' = changes + 1
    /\ steady' = IF walk.q.deleted THEN steady ELSE steady \ {row}
    /\ UNCHANGED walk

ListNext ==
    \/ \E kind \in Kinds, sort \in Sorts, match \in Filters, asked \in Asked,
          deleted \in BOOLEAN, perms \in {{}, {"audit_log.read"}} :
          Begin(kind, [sort |-> sort, match |-> match, asked |-> asked,
                       deleted |-> deleted, perms |-> perms])
    \/ NextPage
    \/ PageFails
    \/ \E row \in Rows : Insert(row) \/ SoftDelete(row)

(* A client that has begun a walk keeps asking while there is more; nobody  *)
(* has to insert or delete anything.                                        *)
ListSpec == ListInit /\ [][ListNext]_listVars /\ WF_listVars(NextPage)

-----------------------------------------------------------------------------
ListTypeOK ==
    /\ table \subseteq Rows /\ erased \subseteq Rows /\ table \cap erased = {}
    /\ steady \subseteq table \cup erased
    /\ walk.phase \in {"idle", "walking", "done", "failed"}
    /\ walk.phase # "idle" => walk.q.limit \in 1 .. MaxLimit

(* The lists whose cursor is the unique key they are ordered by, as long as *)
(* the client sends no sort of its own.                                     *)
KeyOrdered == {"coa", "counterparty", "matauang", "portofolio", "preview", "composition"}

(* A complete walk of a key-ordered list has shown every row that was there *)
(* throughout exactly once, and no row twice, whatever was inserted and     *)
(* deleted between its pages: next cursor, comparison and order agree.      *)
(* A walk that shows deleted rows is left out where a deleted row's key can *)
(* be taken again: of two rows of one key it may skip the older.            *)
WalkExact ==
    (/\ walk.phase = "done" /\ walk.kind \in KeyOrdered /\ walk.q.sort = <<>>
     /\ walk.q.deleted => walk.kind \notin FreesKode) =>
        /\ \A row \in steady : walk.seen[row] = 1
        /\ \A row \in Rows : walk.seen[row] <= 1

(* The other lists may skip and repeat rows, but a walk ends: the cursor    *)
(* moves in one direction and rows are finite.  Left out are the lists of   *)
(* staging, whose second page is an error (staging/repo.go:257, 444, 801),  *)
(* and two that really do not end: the list of calculation runs, which      *)
(* ignores its cursor (calcrun/repo.go:98), and compositions sorted by      *)
(* another column than created_at, which the cursor holds                   *)
(* (lookthrough/repo.go:279).                                               *)
WalkEnds ==
    (/\ walk.phase = "walking" /\ walk.kind \notin {"run", "dpd", "stage", "stageOverride"}
     /\ walk.kind = "composition" => walk.q.sort = <<>>) ~> (walk.phase = "done")
=============================================================================
