--------------------------- MODULE ReferenceKinds ---------------------------
(***************************************************************************)
(* The reference data of BLIPS: counterparties, portfolios, currencies,    *)
(* rates of exchange, accounting periods, instruments, the chart of        *)
(* accounts and the mapping of events to journals.  What each service      *)
(* checks outside the transaction, the constraint its INSERT meets, what   *)
(* keeps a row from being deleted, and the row after its UPDATEs.          *)
(***************************************************************************)
EXTENDS MasterRows

\* The live rows of kind k that refer to row i.
Referring(k, i) == {j \in LiveRows(k) : row[j].body.ref = i}
\* No row of a kind, or no live one, has the key of b.
KeyUnused(k, b)     == \A j \in Rows(k) : row[j].body.key # b.key
LiveKeyUnused(k, b) == \A j \in LiveRows(k) : row[j].body.key # b.key

-----------------------------------------------------------------------------
(* mst.counterparty: val is the rating cached from its history.            *)

CounterpartyValid(b) == WellFormed(b, {"key", "from"})
CounterpartyPatchValid(p) == WellFormed(p, {"from"})
CounterpartyCreate(b) == CounterpartyValid(b)
CounterpartyInsert(b) == LiveKeyUnused("counterparty", b)
CounterpartyUpdate(i, p) == CounterpartyPatchValid(p) /\ row[i].st # "APPROVED"
CounterpartyStore(i, p) == Patched(i, p, {"from"})
\* Only instruments issued by it are counted.
CounterpartyReferences(i) == Referring("instrumen", i)
CounterpartyDelete(i) == CounterpartyReferences(i) = {}
CounterpartyErase(i) == ErasedBumped(i)
CounterpartyStatus(i, to) == Moved(i, to)

-----------------------------------------------------------------------------
(* mst.portofolio                                                          *)

PortofolioValid(b) == WellFormed(b, {"key", "val"})
PortofolioPatchValid(p) == WellFormed(p, {"val"})
PortofolioCreate(b) == PortofolioValid(b)
PortofolioInsert(b) == LiveKeyUnused("portofolio", b)
PortofolioUpdate(i, p) == PortofolioPatchValid(p) /\ row[i].st # "APPROVED"
PortofolioStore(i, p) == Patched(i, p, {"val"})
PortofolioReferences(i) == Referring("instrumen", i)
PortofolioDelete(i) == PortofolioReferences(i) = {}
PortofolioErase(i) == Erased(i)
PortofolioStatus(i, to) == Moved(i, to)

-----------------------------------------------------------------------------
(* mst.mata_uang: the primary key is the code.  No hook is registered.     *)

MataUangValid(b) == WellFormed(b, {"key", "val"})
MataUangPatchValid(p) == WellFormed(p, {"val"})
MataUangCreate(b) == MataUangValid(b)
MataUangInsert(b) == KeyUnused("mata_uang", b)
MataUangUpdate(i, p) == MataUangPatchValid(p) /\ row[i].st # "APPROVED"
MataUangStore(i, p) == Patched(i, p, {"val"})
\* Instruments that are not deleted, and all rates of exchange.
MataUangReferences(i) ==
    Referring("instrumen", i) \cup {j \in Rows("kurs") : row[j].body.ref = i}
\* The system currency (key 9) is never deleted.
MataUangDelete(i) == row[i].body.key # 9 /\ MataUangReferences(i) = {}
MataUangErase(i) == Erased(i)

-----------------------------------------------------------------------------
(* mst.kurs: key is the day, ref the currency or the period the day is in  *)
(* (the other one is taken to be there); from, val and to are the bid,     *)
(* middle and offer rates (a bid left out is 0, an offer left out Open).   *)
(* Nothing in the code locks a rate, so locked_flag is always FALSE.       *)

KursRatesOrdered(b) == b.from <= b.val /\ b.val <= b.to
KursCurrencyApproved(c) == c \in Approved("mata_uang")
KursPeriodActive(i, day) ==
    i \in LiveRows("periode_buku") /\ row[i].body.from <= day /\ day <= row[i].body.to
KursValid(b) ==
    /\ WellFormed(b, {"key", "from", "to", "val"})
    /\ b.val > 0 /\ KursRatesOrdered(b)
    /\ KursCurrencyApproved(b.ref) \/ KursPeriodActive(b.ref, b.key)
KursPatchValid(p) == WellFormed(p, {"from", "to", "val"})
KursCreate(b) == KursValid(b)
\* UNIQUE (currency, day), deleted rows included.
KursInsert(b) ==
    \A j \in Rows("kurs") : <<row[j].body.key, row[j].body.ref>> # <<b.key, b.ref>>
KursUpdate(i, p) ==
    /\ KursPatchValid(p)
    /\ row[i].st # "APPROVED"
    /\ KursRatesOrdered(Merge(row[i].body, p))
KursStore(i, p) == Patched(i, p, {"from", "to", "val"})
KursErase(i) == Erased(i)
KursStatus(i, to) == Moved(i, to)

-----------------------------------------------------------------------------
(* mst.periode_buku.  No hook is registered.                               *)

PeriodeValid(b) == WellFormed(b, {"key", "from", "to"}) /\ b.from <= b.to
PeriodeCreate(b) == PeriodeValid(b)
PeriodeInsert(b) == KeyUnused("periode_buku", b)
\* The order of the dates is checked only when both are given.
PeriodePatchValid(p) ==
    /\ WellFormed(p, {"from", "to"})
    /\ p.from # NotGiven /\ p.to # NotGiven => p.from <= p.to
PeriodeUpdate(i, p) == PeriodePatchValid(p) /\ row[i].st # "APPROVED"
PeriodeStore(i, p) == Patched(i, p, {"from", "to"})
\* Rates and multipliers of the period, deleted ones included.
PeriodeReferences(i) ==
    {j \in Rows("kurs") \cup Rows("impact_pd") \cup Rows("impact_mev_pd") :
        row[j].body.ref = i}
PeriodeDelete(i) == PeriodeReferences(i) = {}
PeriodeErase(i) == Erased(i)
\* BulkCreateIfNotExists: ON CONFLICT (code) DO NOTHING, row by row.
PeriodeMissing ==
    {b \in Bodies["periode_buku"] : PeriodeValid(b) /\ KeyUnused("periode_buku", b)}

-----------------------------------------------------------------------------
(* mst.instrumen: ref is the row it needs, of one of three kinds (the      *)
(* other two are taken to be there).                                       *)

CheckCounterpartyApproved(i) == i \in Approved("counterparty")
CheckPortofolioApproved(i)   == i \in Approved("portofolio")
CheckMataUangApproved(i)     == i \in Approved("mata_uang")
InstrumenValid(b) == WellFormed(b, {"from"})
InstrumenCreate(b) ==
  /\ InstrumenValid(b)
  /\ \/ CheckCounterpartyApproved(b.ref)
     \/ CheckPortofolioApproved(b.ref)
     \/ CheckMataUangApproved(b.ref)
InstrumenInsert(b) == LiveKeyUnused("instrumen", b)
\* A PATCH may name another currency (its fund manager and custodian, which
\* nothing counts as references, are left out).
InstrumenUpdate(i, p) ==
    row[i].st # "APPROVED" /\ (p.ref # NotGiven => CheckMataUangApproved(p.ref))
InstrumenStore(i, p) == Patched(i, p, {"ref", "val"})
InstrumenErase(i) == Erased(i)
InstrumenStatus(i, to) == Moved(i, to)

-----------------------------------------------------------------------------
(* mst.chart_of_accounts: ref is the parent account.                       *)

CoaParentApproved(b) == b.ref = 0 \/ b.ref \in Approved("chart_of_accounts")
CoaValid(b) == WellFormed(b, {"key", "val"})
CoaPatchValid(p) == WellFormed(p, {"val"})
CoaCreate(b) == CoaValid(b) /\ CoaParentApproved(b)
\* Mutant of CoaInsert: no unique constraint on the account's number.
CoaInsertAny(b) == TRUE
CoaInsert(b) == KeyUnused("chart_of_accounts", b)
CoaUpdate(i, p) ==
    /\ CoaPatchValid(p)
    /\ row[i].st # "APPROVED"
    /\ p.ref # NotGiven => CoaParentApproved(p)
CoaStore(i, p) == Patched(i, p, {"ref", "val"})
\* Mutant of CoaDelete: children are not looked for.
CoaDeleteAny(i) == TRUE
\* Child accounts; the mappings that use the account are not counted.
CoaChildren(i) == Referring("chart_of_accounts", i)
CoaDelete(i) == CoaChildren(i) = {}
CoaErase(i) == Erased(i)
CoaStatus(i, to) == Moved(i, to)

-----------------------------------------------------------------------------
(* mst.mapping_jurnal: key is the event code of the header; ref (the       *)
(* account) and val (1 if debit and credit balance) are its details.       *)

MappingValid(b) == WellFormed(b, {"key"})
MappingPatchValid(p) == WellFormed(p, {"key"})
MappingCreate(b) == MappingValid(b)
MappingInsert(b) == KeyUnused("mapping_jurnal", b)
MappingUpdate(i, p) == MappingPatchValid(p) /\ row[i].st # "APPROVED"
GivesHeader(p) == p.key # NotGiven
\* Without a column of the header there is no UPDATE of it: the version is
\* neither compared nor incremented; the details are replaced all the same.
\* An UPDATE of the event code meets the same constraint as an INSERT.
MappingMatches(i, p, ver) ==
    /\ Live(i)
    /\ GivesHeader(p) =>
          /\ row[i].ver = ver
          /\ \A j \in Rows("mapping_jurnal") \ {i} : row[j].body.key # p.key
MappingStore(i, p) ==
    LET stored == Patched(i, p, {"key", "ref", "val"}) IN
    IF GivesHeader(p) THEN stored ELSE [stored EXCEPT !.ver = row[i].ver]
MappingErase(i) == Erased(i)
\* validateApproveInvariants, by the hook, outside its transaction: the
\* details balance and their accounts are APPROVED.
MappingPrior(i, to) ==
    to = "APPROVED" =>
        /\ row[i].body.val = 1
        /\ row[i].body.ref # 0 => row[i].body.ref \in Approved("chart_of_accounts")
MappingStatus(i, to) == Moved(i, to)

=============================================================================
