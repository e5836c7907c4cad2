--------------------------------- MODULE Lps ---------------------------------
(***************************************************************************)
(* The deposit guarantee (src/backend/internal/ecl/lps): how the guaranteed *)
(* amount of a depositor at a bank is spread over his deposits, oldest      *)
(* first, and the proposals that take a deposit out of the guarantee for a  *)
(* range of periods.                                                        *)
(*                                                                          *)
(* Deposito numbers the deposits both queries of the aggregation select, in *)
(* the order tanggal_penempatan, id.  Amounts are integers in units of the  *)
(* fourth decimal and rates in hundredths.  A request on a proposal is two  *)
(* steps: its reads and checks, and its transaction.  The caller is         *)
(* identified as in the handlers' own tests: the keys they read from the    *)
(* request ("user_id", "mfa_verified") are not the ones the authentication  *)
(* middleware sets.                                                         *)
(***************************************************************************)
EXTENDS Integers, FiniteSets, FiniteSetsExt

CONSTANTS
    Deposito,           \* 1 .. n
    BukanDeposito,      \* other instruments, disjoint from Deposito
    Nasabah, Bank,      \* the depositor and the bank of each deposit
    Nominal, MataUang,
    Kurs,               \* rows of mst.kurs
    LpsCoverage,        \* approved rows of mst.lps_coverage
    Tanggal,            \* dates: 0 .. last
    Periode,            \* accounting periods <<first day, last day>>
    LpsUsers, Izin,     \* users and the permissions of each
    Tiada,              \* nobody
    LpsIds,             \* ids of proposals
    ReasonLengths,
    MaxLpsInFlight      \* bound

ASSUME LpsAssumption ==
    /\ IsFiniteSet(Deposito) /\ Deposito = 1 .. Cardinality(Deposito)
    /\ BukanDeposito \cap Deposito = {} /\ Tiada \notin LpsUsers
    /\ Nominal \in [Deposito -> Nat]
    /\ \A c \in LpsCoverage : c.amount \in Nat /\ c.dari \in Nat
    /\ Tanggal \subseteq Nat /\ 0 \in Tanggal /\ MaxLpsInFlight \in Nat
    /\ Periode \subseteq Tanggal \X Tanggal
    /\ \A k, l \in Kurs : k.mataUang = l.mataUang /\ k.tanggal = l.tanggal => k = l
    /\ \A k \in Kurs : k.rate \in Nat

VARIABLES
    hari,               \* the date of the expiry worker
    exclusion,          \* ecl.lps_exclusion_override
    lpsInFlight

lpsVars == <<hari, exclusion, lpsInFlight>>

overrideReasonMinLen == 30
WorkflowStatus == {"PENDING_APPROVAL", "APPROVED_ACTIVE", "REJECTED", "EXPIRED"}
NoExclusion == [status |-> "NONE"]
LPSExclusionOverride ==
    [status : WorkflowStatus, instrumen : Deposito, dari : Tanggal, sampai : Tanggal,
     maker : LpsUsers, approver : LpsUsers \cup {Tiada}]

LpsTypeOK ==
    /\ hari \in Tanggal /\ Cardinality(lpsInFlight) <= MaxLpsInFlight
    /\ \A id \in LpsIds : exclusion[id] = NoExclusion \/ exclusion[id] \in LPSExclusionOverride

LpsInit == hari = 0 /\ exclusion = [id \in LpsIds |-> NoExclusion] /\ lpsInFlight = {}

-----------------------------------------------------------------------------
(* Aggregation.                                                             *)

(* The approved guarantee of a date: the one that starts last.              *)
Covering(date) == {c \in LpsCoverage : c.dari <= date /\ date <= c.sampai}
GetActiveByEvaluationDate(date) ==
    CHOOSE c \in Covering(date) : \A other \in Covering(date) : other.dari <= c.dari

ListByNasabahBank(nasabah, bank) ==
    {d \in Deposito : Nasabah[d] = nasabah /\ Bank[d] = bank}

(* The rate of a deposit: the single path takes the row of the date from    *)
(* any source and refuses a zero rate, the bulk query joins BI_JISDOR only. *)
KursOf(d, date) == {k \in Kurs : k.mataUang = MataUang[d] /\ k.tanggal = date}
KursTengah(d, date) == {k \in KursOf(d, date) : k.rate # 0}
KursJisdor(d, date) == {k \in KursOf(d, date) : k.sumber = "BI_JISDOR"}
Converts(d, rates) == MataUang[d] = "IDR" \/ rates # {}
toIDR(d, rates) ==
    IF MataUang[d] = "IDR" THEN Nominal[d]
    ELSE (Nominal[d] * (CHOOSE k \in rates : TRUE).rate) \div 100

(* Deposits out of the guarantee on a date.                                 *)
GetActiveSetForInstrumens(date) ==
    {d \in Deposito : \E id \in LpsIds :
        /\ exclusion[id].status = "APPROVED_ACTIVE" /\ exclusion[id].instrumen = d
        /\ exclusion[id].dari <= date /\ date <= exclusion[id].sampai}
(* The bulk query joins any proposal in force, whatever its periods.        *)
BulkOverrides ==
    {d \in Deposito : \E id \in LpsIds :
        exclusion[id].status = "APPROVED_ACTIVE" /\ exclusion[id].instrumen = d}

(* The loop of allocatePair over the deposits of a pair in order: what the  *)
(* guarantee still holds after each of them, and what each gets of it.      *)
RemainingExcludedToo(pair, excluded, ead, amount) ==
    LET rest[d \in 0 .. Max(Deposito \cup {0})] ==
            IF d = 0 THEN amount
            ELSE IF d \notin pair THEN rest[d - 1]
            ELSE rest[d - 1] - Min({ead[d], rest[d - 1]})
    IN rest
Remaining(pair, excluded, ead, amount) ==
    LET rest[d \in 0 .. Max(Deposito \cup {0})] ==
            IF d = 0 THEN amount
            ELSE IF d \notin pair \ excluded THEN rest[d - 1]
            ELSE rest[d - 1] - Min({ead[d], rest[d - 1]})
    IN rest

allocatePair(pair, excluded, ead, amount) ==
    LET rest == Remaining(pair, excluded, ead, amount)
    IN [d \in pair |->
          LET covered == IF d \in excluded THEN 0 ELSE Min({ead[d], rest[d - 1]})
          IN [ead |-> ead[d], covered |-> covered, excess |-> ead[d] - covered,
              excluded |-> d \in excluded]]

(* The two ways to the same breakdown: of one pair, and of all of them.     *)
(* Without a guarantee or a rate they fail: no breakdown.                   *)
Aggregate(nasabah, bank, date) ==
    LET pair == ListByNasabahBank(nasabah, bank)
    IN IF Covering(date) = {} \/ \E d \in pair : ~Converts(d, KursTengah(d, date)) THEN {}
       ELSE {allocatePair(pair, GetActiveSetForInstrumens(date) \cap pair,
                          [d \in pair |-> toIDR(d, KursTengah(d, date))],
                          GetActiveByEvaluationDate(date).amount)}

AggregateBulk(date) ==
    IF Covering(date) = {} \/ \E d \in Deposito : ~Converts(d, KursJisdor(d, date)) THEN {}
    ELSE {[d \in Deposito |->
             LET pair == ListByNasabahBank(Nasabah[d], Bank[d])
             IN allocatePair(pair, BulkOverrides \cap pair,
                             [e \in pair |-> toIDR(e, KursJisdor(e, date))],
                             GetActiveByEvaluationDate(date).amount)[d]]}

(* The preview of a depositor at a bank: sums over the bulk breakdown.      *)
Total(breakdown, pair, column) == SumFunctionOnSet([d \in pair |-> breakdown[d][column]], pair)
Preview(nasabah, bank, date) ==
    LET pair == ListByNasabahBank(nasabah, bank)
    IN {[exposure |-> Total(b, pair, "ead"), covered |-> Total(b, pair, "covered"),
         excess |-> Total(b, pair, "excess")] : b \in AggregateBulk(date)}

-----------------------------------------------------------------------------
(* Proposals.                                                               *)

hasPermission(u, perm) == perm \in Izin[u]
LpsServing(r) == /\ Cardinality(lpsInFlight) < MaxLpsInFlight /\ r \notin lpsInFlight
                 /\ lpsInFlight' = lpsInFlight \cup {r}
                 /\ UNCHANGED <<hari, exclusion>>

HasActiveOrPendingForInstrumen(i) ==
    \E id \in LpsIds : /\ exclusion[id].status \in {"APPROVED_ACTIVE", "PENDING_APPROVAL"}
                       /\ exclusion[id].instrumen = i

SubmitAnyInstrumen(u, i, reason, from, to) ==
    /\ reason >= overrideReasonMinLen /\ from[1] <= to[2] /\ ~HasActiveOrPendingForInstrumen(i)
    /\ LpsServing([op |-> "submit", instrumen |-> i, dari |-> from[1], sampai |-> to[2], actor |-> u])
Submit(u, i, reason, from, to) ==
    /\ i \in Deposito
    /\ reason >= overrideReasonMinLen
    /\ from[1] <= to[2]
    /\ ~HasActiveOrPendingForInstrumen(i)
    /\ LpsServing([op |-> "submit", instrumen |-> i, dari |-> from[1], sampai |-> to[2], actor |-> u])
LpsSubmit(u, i, reason, from, to) ==
    hasPermission(u, "lps_aggregator.override") /\ Submit(u, i, reason, from, to)

ApproveOverride(id, u) ==
    /\ exclusion[id].status = "PENDING_APPROVAL"
    /\ u # exclusion[id].maker
    /\ LpsServing([op |-> "approve", id |-> id, actor |-> u])
LpsApprove(id, u, mfaVerified) ==
    hasPermission(u, "lps_aggregator.override.approve") /\ mfaVerified /\ ApproveOverride(id, u)

RejectExclusion(id, u) ==
    /\ exclusion[id].status = "PENDING_APPROVAL"
    /\ LpsServing([op |-> "reject", id |-> id, actor |-> u])
LpsReject(id, u) == hasPermission(u, "lps_aggregator.override.reject") /\ RejectExclusion(id, u)

ListExpiredApprovedActive(day) ==
    {id \in LpsIds : exclusion[id].status = "APPROVED_ACTIVE" /\ exclusion[id].sampai < day}
HandleExpiryCheck(id) ==
    /\ id \in ListExpiredApprovedActive(hari)
    /\ LpsServing([op |-> "expire", id |-> id])

CreateOverride(r) ==
    /\ r.op = "submit"
    /\ \E id \in LpsIds :
        /\ exclusion[id] = NoExclusion
        /\ exclusion' = [exclusion EXCEPT ![id] =
               [status |-> "PENDING_APPROVAL", instrumen |-> r.instrumen, dari |-> r.dari,
                sampai |-> r.sampai, maker |-> r.actor, approver |-> Tiada]]

(* UPDATE ... WHERE id AND workflow_status: a proposal decided meanwhile    *)
(* matches no row.                                                          *)
Guarded(id, status, o) ==
    exclusion' = IF exclusion[id].status = status THEN [exclusion EXCEPT ![id] = o] ELSE exclusion

Signed(r) == [exclusion[r.id] EXCEPT !.status = "APPROVED_ACTIVE", !.approver = r.actor]
RejectTx(r) ==
    /\ r.op = "reject"
    /\ Guarded(r.id, "PENDING_APPROVAL", [exclusion[r.id] EXCEPT !.status = "REJECTED"])
ApproveTxAnyStatus(r) == /\ r.op = "approve" /\ exclusion' = [exclusion EXCEPT ![r.id] = Signed(r)]
ApproveTx(r) == /\ r.op = "approve" /\ Guarded(r.id, "PENDING_APPROVAL", Signed(r))
expireOne(r) ==
    /\ r.op = "expire"
    /\ Guarded(r.id, "APPROVED_ACTIVE", [exclusion[r.id] EXCEPT !.status = "EXPIRED"])

LpsTx(r) ==
    /\ CreateOverride(r) \/ ApproveTx(r) \/ RejectTx(r) \/ expireOne(r)
    /\ lpsInFlight' = lpsInFlight \ {r}
    /\ UNCHANGED hari

Besok == /\ hari + 1 \in Tanggal /\ hari' = hari + 1 /\ UNCHANGED <<exclusion, lpsInFlight>>

LpsNext ==
    \/ \E u \in LpsUsers, i \in Deposito \cup BukanDeposito, n \in ReasonLengths, from, to \in Periode :
           LpsSubmit(u, i, n, from, to)
    \/ \E id \in LpsIds, u \in LpsUsers :
           LpsReject(id, u) \/ \E mfa \in BOOLEAN : LpsApprove(id, u, mfa)
    \/ \E id \in LpsIds : HandleExpiryCheck(id)
    \/ \E r \in lpsInFlight : LpsTx(r)
    \/ Besok
LpsSpec == LpsInit /\ [][LpsNext]_lpsVars

-----------------------------------------------------------------------------
(* What the guarantee may cover of a pair: its exposure not excluded.       *)
Eligible(breakdown, pair) ==
    SumFunctionOnSet([d \in pair |-> IF breakdown[d].excluded THEN 0 ELSE breakdown[d].ead], pair)

(* The guarantee is spent exactly once, oldest deposit first, whatever      *)
(* deposits an exclusion in force takes out, on its own dates and on others:*)
(* a pair's covered part is the smaller of the guarantee and of the exposure*)
(* not excluded, a deposit gets nothing while an older one is not fully     *)
(* covered, and the preview's total splits into the covered part and the    *)
(* excess (service.go allocatePair, Preview).                               *)
CoveredUpToCap ==
    (\E id \in LpsIds : exclusion[id].status = "APPROVED_ACTIVE") =>
    \A n \in {Nasabah[d] : d \in Deposito}, b \in {Bank[d] : d \in Deposito}, date \in Tanggal :
        LET pair == ListByNasabahBank(n, b)
        IN \A breakdown \in Aggregate(n, b, date) \cup AggregateBulk(date) :
            /\ Total(breakdown, pair, "covered") =
                 Min({GetActiveByEvaluationDate(date).amount, Eligible(breakdown, pair)})
            /\ \A d, e \in pair :
                 d < e /\ ~breakdown[d].excluded /\ breakdown[d].excess > 0 => breakdown[e].covered = 0
            /\ \A row \in Preview(n, b, date) : row.exposure = row.covered + row.excess

(* A decision on a proposal is taken once: a step leaves a proposal alone,  *)
(* decides a pending one, or lets an approved one expire, however approvals,*)
(* rejections and the expiry worker cross (repo.go Approve and Reject,      *)
(* expiry_worker.go).                                                       *)
DecidedOnce ==
    [][\A id \in LpsIds :
        \/ exclusion'[id] = exclusion[id]
        \/ exclusion[id] = NoExclusion /\ exclusion'[id].status = "PENDING_APPROVAL"
        \/ exclusion[id].status = "PENDING_APPROVAL"
           /\ exclusion'[id].status \in {"APPROVED_ACTIVE", "REJECTED"}
        \/ exclusion[id].status = "APPROVED_ACTIVE" /\ exclusion'[id].status = "EXPIRED"
           /\ exclusion[id].sampai < hari]_lpsVars

(* p4-m3-lps.md:75 "Jalankan logic alokasi FIFO = sama dengan Single Pair   *)
(* flow": the breakdown of all pairs gives a deposit what its pair's gives. *)
BulkAsSingle ==
    \A d \in Deposito, date \in Tanggal :
        \A one \in Aggregate(Nasabah[d], Bank[d], date), all \in AggregateBulk(date) :
            all[d] = one[d]
=============================================================================
