----------------------------- MODULE MasterData -----------------------------
(***************************************************************************)
(* The master data of BLIPS at work: clients create, edit, delete and move *)
(* through the workflow the rows of all kinds, each request in two steps   *)
(* (MasterRows), with the guards and constraints of the row's kind         *)
(* (DatedKinds, ReferenceKinds).                                           *)
(*                                                                         *)
(* A transition of the workflow engine is taken to be one that still finds *)
(* its instance as it was loaded; those that do not are in Workflow.  The  *)
(* pending states are one, PENDING.  raced records that a request has      *)
(* committed on the strength of checks another commit had overtaken: what  *)
(* the checks promise is stated for the runs without it, what versions and *)
(* constraints of the database promise is stated for all.                  *)
(***************************************************************************)
EXTENDS DatedKinds, ReferenceKinds

\* The kinds for which main.go registers no hook: their rows keep the status
\* they were inserted with.
Unhooked == {"lgd_basel", "mata_uang", "periode_buku"}

\* The kinds whose last approval is an approve2 that the hook looks for.
SixEyes(k) == k = "bobot_skenario"

-----------------------------------------------------------------------------
(* The service of each kind, by kind.                                      *)

CreateAllowed(k, b) ==
    CASE k = "bobot_skenario"    -> BobotCreate(b)
      [] k = "pd_pefindo"        -> PdCreate(b)
      [] k = "lgd_basel"         -> LgdCreate(b)
      [] k = "lps_coverage"      -> LpsCreate(b)
      [] k = "impact_pd"         -> ImpactPdCreate(b)
      [] k = "impact_mev_pd"     -> ImpactMevCreate(b)
      [] k = "rating_history"    -> RatingCreate(b)
      [] k = "counterparty"      -> CounterpartyCreate(b)
      [] k = "portofolio"        -> PortofolioCreate(b)
      [] k = "mata_uang"         -> MataUangCreate(b)
      [] k = "kurs"              -> KursCreate(b)
      [] k = "periode_buku"      -> PeriodeCreate(b)
      [] k = "instrumen"         -> InstrumenCreate(b)
      [] k = "chart_of_accounts" -> CoaCreate(b)
      [] k = "mapping_jurnal"    -> MappingCreate(b)

InsertAllowed(k, b) ==
    CASE k = "impact_pd"         -> ImpactPdInsert(b)
      [] k = "impact_mev_pd"     -> ImpactMevInsert(b)
      [] k = "rating_history"    -> RatingInsert(b)
      [] k = "counterparty"      -> CounterpartyInsert(b)
      [] k = "portofolio"        -> PortofolioInsert(b)
      [] k = "mata_uang"         -> MataUangInsert(b)
      [] k = "kurs"              -> KursInsert(b)
      [] k = "periode_buku"      -> PeriodeInsert(b)
      [] k = "instrumen"         -> InstrumenInsert(b)
      [] k = "chart_of_accounts" -> CoaInsert(b)
      [] k = "mapping_jurnal"    -> MappingInsert(b)
      [] OTHER -> TRUE

UpdateAllowed(i, p) ==
    LET k == kind[i] IN
    CASE k = "bobot_skenario"    -> BobotUpdate(i, p)
      [] k = "pd_pefindo"        -> PdUpdate(i, p)
      [] k = "lgd_basel"         -> LgdUpdate(i, p)
      [] k = "lps_coverage"      -> LpsUpdate(i, p)
      [] k = "impact_pd"         -> ImpactPdUpdate(i, p)
      [] k = "impact_mev_pd"     -> ImpactMevUpdate(i, p)
      [] k = "rating_history"    -> RatingUpdate(i, p)
      [] k = "counterparty"      -> CounterpartyUpdate(i, p)
      [] k = "portofolio"        -> PortofolioUpdate(i, p)
      [] k = "mata_uang"         -> MataUangUpdate(i, p)
      [] k = "kurs"              -> KursUpdate(i, p)
      [] k = "periode_buku"      -> PeriodeUpdate(i, p)
      [] k = "instrumen"         -> InstrumenUpdate(i, p)
      [] k = "chart_of_accounts" -> CoaUpdate(i, p)
      [] k = "mapping_jurnal"    -> MappingUpdate(i, p)

Stored(i, p) ==
    LET k == kind[i] IN
    CASE k = "bobot_skenario"    -> BobotStore(i, p)
      [] k = "pd_pefindo"        -> PdStore(i, p)
      [] k = "lgd_basel"         -> LgdStore(i, p)
      [] k = "lps_coverage"      -> LpsStore(i, p)
      [] k = "impact_pd"         -> ImpactPdStore(i, p)
      [] k = "impact_mev_pd"     -> ImpactMevStore(i, p)
      [] k = "rating_history"    -> RatingStore(i, p)
      [] k = "counterparty"      -> CounterpartyStore(i, p)
      [] k = "portofolio"        -> PortofolioStore(i, p)
      [] k = "mata_uang"         -> MataUangStore(i, p)
      [] k = "kurs"              -> KursStore(i, p)
      [] k = "periode_buku"      -> PeriodeStore(i, p)
      [] k = "instrumen"         -> InstrumenStore(i, p)
      [] k = "chart_of_accounts" -> CoaStore(i, p)
      [] k = "mapping_jurnal"    -> MappingStore(i, p)

DeleteAllowed(i) ==
    LET k == kind[i] IN
    CASE k = "pd_pefindo"        -> PdDelete(i)
      [] k = "impact_pd"         -> ImpactPdDelete(i)
      [] k = "impact_mev_pd"     -> ImpactMevDelete(i)
      [] k = "rating_history"    -> RatingDelete(i)
      [] k = "counterparty"      -> CounterpartyDelete(i)
      [] k = "portofolio"        -> PortofolioDelete(i)
      [] k = "mata_uang"         -> MataUangDelete(i)
      [] k = "periode_buku"      -> PeriodeDelete(i)
      [] k = "chart_of_accounts" -> CoaDelete(i)
      [] OTHER -> TRUE

ErasedRow(i) ==
    LET k == kind[i] IN
    CASE k = "bobot_skenario"    -> BobotErase(i)
      [] k = "pd_pefindo"        -> PdErase(i)
      [] k = "lgd_basel"         -> LgdErase(i)
      [] k = "lps_coverage"      -> LpsErase(i)
      [] k = "impact_pd"         -> ImpactPdErase(i)
      [] k = "impact_mev_pd"     -> ImpactMevErase(i)
      [] k = "rating_history"    -> RatingErase(i)
      [] k = "counterparty"      -> CounterpartyErase(i)
      [] k = "portofolio"        -> PortofolioErase(i)
      [] k = "mata_uang"         -> MataUangErase(i)
      [] k = "kurs"              -> KursErase(i)
      [] k = "periode_buku"      -> PeriodeErase(i)
      [] k = "instrumen"         -> InstrumenErase(i)
      [] k = "chart_of_accounts" -> CoaErase(i)
      [] k = "mapping_jurnal"    -> MappingErase(i)

\* Repository.Update matches the row by its version, and not if deleted.
\* MatchesAnyVersion is a mutant: the WHERE clause lacks the row version.
MatchesAnyVersion(i, p, ver) == Live(i)
Matches(i, p, ver) ==
    IF kind[i] = "mapping_jurnal" THEN MappingMatches(i, p, ver)
    ELSE row[i].ver = ver /\ Live(i)

\* What a hook reads outside its transaction must allow the transition ...
PriorAllows(i, to) ==
    CASE kind[i] = "bobot_skenario" -> Live(i)
      [] kind[i] = "pd_pefindo"     -> PdPrior(i, to)
      [] kind[i] = "mapping_jurnal" -> MappingPrior(i, to)
      [] OTHER -> TRUE
\* ... or is used in it.
PriorRead(i) == IF kind[i] = "rating_history" THEN RatingPrior(i) ELSE Live(i)

\* What it reads inside.
HookPasses(i, r) ==
    CASE kind[i] = "bobot_skenario" -> BobotHook(i, r.body, r.to, r.second)
      [] kind[i] = "lps_coverage"   -> LpsHook(i)
      [] kind[i] = "impact_pd"      -> ImpactPdHook(i, r.prior, r.to)
      [] kind[i] = "impact_mev_pd"  -> ImpactMevHook(i, r.prior, r.to)
      [] kind[i] = "rating_history" -> r.to = "APPROVED" => Live(i)
      [] OTHER -> TRUE

StatusRow(i, to) ==
    LET k == kind[i] IN
    CASE k \in Unhooked          -> row[i]
      [] k = "bobot_skenario"    -> BobotStatus(i, to)
      [] k = "pd_pefindo"        -> PdStatus(i, to)
      [] k = "lps_coverage"      -> LpsStatus(i, to)
      [] k = "impact_pd"         -> ImpactPdStatus(i, to)
      [] k = "impact_mev_pd"     -> ImpactMevStatus(i, to)
      [] k = "rating_history"    -> RatingStatus(i, to)
      [] k = "counterparty"      -> CounterpartyStatus(i, to)
      [] k = "portofolio"        -> PortofolioStatus(i, to)
      [] k = "kurs"              -> KursStatus(i, to)
      [] k = "instrumen"         -> InstrumenStatus(i, to)
      [] k = "chart_of_accounts" -> CoaStatus(i, to)
      [] k = "mapping_jurnal"    -> MappingStatus(i, to)

-----------------------------------------------------------------------------
KeyOf(k, b) == IF k = "kurs" THEN <<b.key, b.ref>> ELSE <<b.key>>

\* The columns a service validates, on creation and in patches, and the
\* relation between columns that it checks on the merge of a row and a patch.
Validated(k) ==
    CASE k \in {"bobot_skenario", "pd_pefindo", "lps_coverage"} -> {"from", "to", "val"}
      [] k \in {"lgd_basel", "kurs"} -> {"key", "from", "to", "val"}
      [] k \in {"impact_pd", "impact_mev_pd", "portofolio", "mata_uang", "chart_of_accounts"} ->
            {"key", "val"}
      [] k \in {"rating_history", "counterparty"} -> {"key", "from"}
      [] k = "periode_buku" -> {"key", "from", "to"}
      [] k = "instrumen" -> {"from"}
      [] k = "mapping_jurnal" -> {"key"}
Related(k, b) ==
    CASE k = "pd_pefindo"   -> PdMonotonic(b)
      [] k = "lps_coverage" -> b.from <= b.to
      [] k = "kurs"         -> KursRatesOrdered(b)
      [] OTHER -> TRUE
Valid(k, b) == WellFormed(b, Validated(k)) /\ Related(k, b)

\* What an instrument, a rate of exchange or an account may refer to, the
\* row that it refers to (if any), and that this row is in force.
Targets(k) ==
    CASE k = "instrumen" -> {"counterparty", "portofolio", "mata_uang"}
      [] k = "kurs" -> {"mata_uang", "periode_buku"}
      [] k = "chart_of_accounts" -> {"chart_of_accounts"}
      [] OTHER -> {}
Referenced(i) ==
    IF Targets(kind[i]) # {} /\ Live(i) THEN {row[i].body.ref} \ {0} ELSE {}
Resolves(k, j) ==
    kind[j] \in Targets(k) /\ Live(j) /\ (kind[j] # "periode_buku" => row[j].st = "APPROVED")

\* The approved weights of a period, if they are there for every scenario,
\* add up.
ApprovedOf(b) ==
    {i \in Approved("bobot_skenario") :
        row[i].body.from = b.from /\ row[i].body.to = b.to}
AddUp ==
    \A i \in Approved("bobot_skenario") :
        LET S == ApprovedOf(row[i].body) IN
        {row[j].body.key : j \in S} = Skenarios => Weight(S) = SumTarget

\* Under any interleaving a counterparty's cached rating is that of its
\* approved rating: an edit admitted before the approval comes too late, and
\* no second rating of the counterparty gets past the index (uq_rating_aktif).
RatingCacheFresh ==
    \A i \in Approved("rating_history") :
        LET c == row[i].body.ref IN
        Live(c) => row[c].body.val = row[i].body.val

\* The rows the migrations insert differ in their keys, are valid and refer to
\* rows in force; their weights add up, and their ratings are dated, open, one
\* for a counterparty, which caches it.
SeedConsistent ==
    /\ \A i, j \in Ids :
          (i # j /\ kind[i] = kind[j] /\ Exists(i) /\ Exists(j)) =>
              KeyOf(kind[i], row[i].body) # KeyOf(kind[j], row[j].body)
    /\ \A i \in Ids : Exists(i) => Valid(kind[i], row[i].body)
    /\ \A i \in Ids : \A j \in Referenced(i) : Resolves(kind[i], j)
    /\ \A i \in Rows("bobot_skenario") : row[i].body.key \in Skenarios
    /\ AddUp
    /\ \A i \in Rows("rating_history") :
          /\ row[i].body.from # NotGiven /\ row[i].body.to = Open
          /\ row[i].body.ref \in Rows("counterparty")
          /\ \A j \in Rows("rating_history") : row[j].body.ref = row[i].body.ref => i = j
    /\ RatingCacheFresh

Init ==
    /\ kind \in Assignments
    /\ row \in [Ids -> UNION {FirstRows[k] : k \in Kinds}]
    /\ \A i \in Ids : row[i] \in FirstRows[kind[i]]
    /\ SeedConsistent
    /\ wf = [i \in Ids |-> row[i].st]
    /\ req = [c \in Clients |-> Idle]
    /\ raced = FALSE /\ crowded = FALSE

Begin(c, r) ==
    /\ req[c] = Idle
    /\ req' = [req EXCEPT ![c] = r]
    /\ UNCHANGED <<kind, row, wf, raced, crowded>>

\* The end of a request that changed the database: every other request in
\* flight has now been judged on what is no longer so.
Commit(c) ==
    /\ req' = [d \in Clients |->
                  IF d = c THEN Idle
                  ELSE IF req[d] = Idle THEN Idle
                  ELSE [req[d] EXCEPT !.quiet = FALSE]]
    /\ raced' = (raced \/ ~req[c].quiet)
    /\ UNCHANGED kind

BeginCreate(c) ==
    \E i \in Ids : \E b \in Bodies[kind[i]] :
        /\ ~Exists(i)
        /\ CreateAllowed(kind[i], b)
        /\ Begin(c, [op |-> "create", id |-> i, body |-> b, quiet |-> TRUE])

CommitCreate(c) ==
    LET r == req[c] i == r.id IN
    /\ r.op = "create"
    /\ ~Exists(i)
    /\ InsertAllowed(kind[i], r.body)
    /\ row' = [row EXCEPT ![i] = Inserted(r.body)]
    /\ wf' = [wf EXCEPT ![i] = "DRAFT"]
    /\ Commit(c) /\ UNCHANGED crowded

BeginUpdate(c) ==
    \E i \in Ids : \E p \in Patches[kind[i]] :
        /\ Live(i)
        /\ row[i].ver < MaxVersion
        /\ UpdateAllowed(i, p)
        /\ Begin(c, [op |-> "update", id |-> i, body |-> p, ver |-> row[i].ver,
                     quiet |-> TRUE])

CommitUpdate(c) ==
    LET r == req[c] i == r.id IN
    /\ r.op = "update"
    /\ Matches(i, r.body, r.ver)
    /\ row' = [row EXCEPT ![i] = Stored(i, r.body)]
    /\ UNCHANGED <<wf, crowded>>
    /\ Commit(c)

BeginDelete(c) ==
    \E i \in Ids :
        /\ Live(i)
        /\ DeleteAllowed(i)
        /\ Begin(c, [op |-> "delete", id |-> i, quiet |-> TRUE])

\* WHERE deleted_at IS NULL; neither the version nor the status is compared.
CommitDelete(c) ==
    LET r == req[c] i == r.id IN
    /\ r.op = "delete"
    /\ row' = [row EXCEPT ![i] = IF Live(i) THEN ErasedRow(i) ELSE @]
    /\ UNCHANGED <<wf, crowded>>
    /\ Commit(c)

\* A transition of the engine: submission, the last approval, a rejection.
Steps == {<<"DRAFT", "PENDING">>, <<"PENDING", "APPROVED">>, <<"PENDING", "REJECTED">>}

BeginMove(c) ==
    \E i \in Ids : \E s \in Steps :
        /\ Exists(i) /\ wf[i] = s[1]
        /\ PriorAllows(i, s[2])
        /\ Begin(c, [op |-> "move", id |-> i, to |-> s[2],
                     second |-> SixEyes(kind[i]), body |-> row[i].body, prior |-> PriorRead(i), quiet |-> TRUE])

CommitMove(c) ==
    LET r == req[c] i == r.id IN
    /\ r.op = "move"
    /\ <<wf[i], r.to>> \in Steps
    /\ HookPasses(i, r)
    /\ wf' = [wf EXCEPT ![i] = r.to]
    /\ row' = IF kind[i] = "rating_history" /\ r.to = "APPROVED"
              THEN RatingApproved(i, r.prior)
              ELSE [row EXCEPT ![i] = StatusRow(i, r.to)]
    /\ Commit(c) /\ UNCHANGED crowded

\* Scenario weights: the default weights of all scenarios from a day on.
BeginSeed(c) ==
    \E from \in Dates :
        /\ \E i \in Ids : kind[i] = "bobot_skenario"
        /\ BobotSeed(from)
        /\ Begin(c, [op |-> "seed", from |-> from, quiet |-> TRUE])

FreeIds(k) == {i \in Ids : kind[i] = k /\ ~Exists(i)}
Injections(S, T) == {f \in [S -> T] : \A x, y \in S : f[x] = f[y] => x = y}

InsertAll(f, body) ==
    /\ row' = [i \in Ids |-> IF \E x \in DOMAIN f : f[x] = i
                             THEN Inserted(body[CHOOSE x \in DOMAIN f : f[x] = i])
                             ELSE row[i]]
    /\ wf' = [i \in Ids |-> IF \E x \in DOMAIN f : f[x] = i THEN "DRAFT" ELSE wf[i]]

CommitSeed(c) ==
    LET r == req[c] IN
    /\ r.op = "seed"
    /\ \E f \in Injections(Skenarios, FreeIds("bobot_skenario")) :
          InsertAll(f, [s \in Skenarios |-> [NoBody EXCEPT !.key = s, !.from = r.from,
                                                            !.to = Open, !.val = 1]])
    /\ crowded' = (crowded \/ CountByPeriod(r.from) # {})
    /\ Commit(c)

\* Accounting periods: BulkCreateIfNotExists, all in one transaction, with
\* nothing read before it.
CommitGenerate(c) ==
    LET new == PeriodeMissing IN
    /\ req[c] = Idle /\ new # {}
    /\ \E f \in Injections(new, FreeIds("periode_buku")) : InsertAll(f, [b \in new |-> b])
    /\ req' = [d \in Clients |->
                  IF req[d] = Idle THEN Idle ELSE [req[d] EXCEPT !.quiet = FALSE]]
    /\ UNCHANGED <<kind, raced, crowded>>

\* A job of the PD upload: rows with a valid curve become drafts, whatever
\* overlaps them, and with nothing read before.
CommitUpload(c) ==
    /\ req[c] = Idle
    /\ \E i \in FreeIds("pd_pefindo") : \E b \in PdUploaded(Bodies["pd_pefindo"]) :
          row' = [row EXCEPT ![i] = Inserted(b)] /\ wf' = [wf EXCEPT ![i] = "DRAFT"]
    /\ req' = [d \in Clients |->
                  IF req[d] = Idle THEN Idle ELSE [req[d] EXCEPT !.quiet = FALSE]]
    /\ UNCHANGED <<kind, raced, crowded>>

\* A request that goes no further: refused by a constraint, by a version that
\* moved on or by the hook, or lost with the server.
Fail(c) ==
    /\ req[c] # Idle
    /\ req' = [req EXCEPT ![c] = Idle]
    /\ UNCHANGED <<kind, row, wf, raced, crowded>>

Next ==
    \E c \in Clients :
        \/ BeginCreate(c) \/ CommitCreate(c)
        \/ BeginUpdate(c) \/ CommitUpdate(c)
        \/ BeginDelete(c) \/ CommitDelete(c)
        \/ BeginMove(c)   \/ CommitMove(c)
        \/ BeginSeed(c)   \/ CommitSeed(c)
        \/ CommitGenerate(c)
        \/ CommitUpload(c)
        \/ Fail(c)

Spec == Init /\ [][Next]_vars

-----------------------------------------------------------------------------
\* Every variable holds values of its columns' types.
TypeOK ==
    /\ kind \in Assignments
    /\ row \in [Ids -> RowType]
    /\ wf \in [Ids -> Statuses]
    /\ req \in [Clients -> RequestType]
    /\ raced \in BOOLEAN /\ crowded \in BOOLEAN

\* What was approved stays as approved, however late an edit admitted before
\* the approval commits: the version in the WHERE clause stands for the whole
\* body only if every transition increments it.  For the multipliers and the
\* LPS coverage, which can be edited as drafts only, it is also what was
\* submitted that is approved.  (A mapping's details are outside its version;
\* a counterparty's cached rating and the end of a rating are the hook's.)
FrozenStatuses(k) ==
    IF k \in {"lps_coverage", "impact_pd", "impact_mev_pd"}
    THEN {"PENDING", "APPROVED"} ELSE {"APPROVED"}
FrozenPart(k, b) ==
    CASE k = "counterparty"   -> [b EXCEPT !.val = 0]
      [] k = "rating_history" -> [b EXCEPT !.to = 0]
      [] OTHER -> b
BodyFrozen ==
    [][\A i \in Ids :
          kind[i] # "mapping_jurnal" /\ row[i].st \in FrozenStatuses(kind[i]) =>
              FrozenPart(kind[i], row'[i].body) = FrozenPart(kind[i], row[i].body)]_vars

\* As long as no two requests overlapped, a rating has at most one approved
\* curve for a day among the rows not deleted: drafts may overlap, edits move
\* their periods and uploads check nothing, but the approval looks again.
PdSingleCurve ==
    ~raced => \A i, day \in Dates :
                  Cardinality({j \in PdInForce(i, day) : Live(j)}) <= 1

\* As long as no two requests overlapped and no default weights were put
\* beside others of the same period, the approved weights of a period add up
\* once they are there for every scenario: drafts count in the sum the hook
\* takes and may be edited, deleted or rejected after it, approved rows may
\* be deleted and replaced.
WeightsAddUp == ~raced /\ ~crowded => AddUp

\* What the data dictionary says of the active weights, whatever was seeded:
\* SeedDefault counts the rows of a period and then inserts a row for every
\* scenario, also for those that have one.
ActiveWeightsAddUp == ~raced => AddUp

\* Under any interleaving a natural key has one live row, although services
\* look for duplicates (if they do) outside the transaction, and although a
\* row may be deleted and its key used again.
Keyed == Kinds \ {"bobot_skenario", "pd_pefindo", "lgd_basel", "lps_coverage"}
NaturalKeysUnique ==
    \A k \in Keyed : \A i, j \in LiveRows(k) :
        KeyOf(k, row[i].body) = KeyOf(k, row[j].body) => i = j

\* As long as no two requests overlapped, the row an instrument, a rate of
\* exchange or an account refers to is there, of a kind it may refer to, and
\* APPROVED: no deletion or transition pulls it away.
ReferencesResolve ==
    ~raced => \A i \in Ids : \A j \in Referenced(i) : Resolves(kind[i], j)

\* Under any interleaving, what is stored in a validated column parses and is
\* in range, and the relation between the columns of a row, checked on the
\* merge of a patch with a copy read outside the transaction, holds of the
\* row stored.
MergedValid == \A i \in Ids : Live(i) => Valid(kind[i], row[i].body)

=============================================================================
