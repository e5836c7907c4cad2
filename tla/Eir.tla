-------------------------------- MODULE Eir --------------------------------
(***************************************************************************)
(* Effective interest rates (src/backend/internal/ecl/eir): the rate of an *)
(* instrument, its amortization schedule, the amendment proposals that     *)
(* replace both, and the drift reports that compare them.                  *)
(*                                                                         *)
(* No service locks what it reads.  Every request is therefore two steps:  *)
(* one that loads, checks and computes, and one that is its transaction.   *)
(* req[s] is what session s remembers in between.  A cash flow projection  *)
(* is a member of Cashflows: Solve gives the rate the solver finds for it  *)
(* (NoRate: it does not converge) and Length the schedule rows it yields.  *)
(* The caller is identified as the handlers' own tests do: the keys they   *)
(* read from the request ("user_id", "mfa_verified", "role") are not the   *)
(* ones the authentication middleware sets.                                *)
(***************************************************************************)
EXTENDS Integers, FiniteSets, FiniteSetsExt

CONSTANTS
    Sessions, Users, Instruments, Proposals, Reports, Workers,
    Rates, NoRate, Cashflows, NoCf, Solve, Length,
    Klasifikasi,    \* klasifikasi_psak71 of each instrument
    MethodFlag,     \* eir_method_flag
    Poci,           \* flag_poci
    Perms,          \* the permissions of each user
    Nobody,
    MaxRows         \* bound: rows a schedule may hold

ASSUME EirAssumption ==
    /\ NoRate \notin Rates /\ NoCf \notin Cashflows /\ Nobody \notin Users \cup Proposals
    /\ MaxRows \in Nat
    /\ Solve \in [Cashflows -> Rates \cup {NoRate}]
    /\ Length \in [Cashflows -> 1 .. MaxRows]
    /\ Klasifikasi \in [Instruments -> {"AC", "FVOCI", "FVTPL", "FVOCI_ELECTION"}]
    /\ MethodFlag \in [Instruments -> BOOLEAN] /\ Poci \in [Instruments -> BOOLEAN]

VARIABLES
    eirAwal,        \* mst.instrumen.eir_awal
    schedule,       \* ecl.eir_amortization_schedule: a set of rows per instrument
    proposal,       \* ecl.eir_reestimation_log
    report,         \* sys.drift_report
    req,            \* the request each session is serving
    job             \* the drift job each worker is running

eirVars == <<eirAwal, schedule, proposal, report, req, job>>

Active == {"DRAFT", "PENDING_REVIEW", "PENDING_APPROVAL"}
Terminal == {"APPROVED", "REJECTED", "CANCELLED"}

ScheduleRow == [seq : Nat, rate : Rates, from : Proposals \cup {Nobody}, mark : Nat]

AmendmentProposal ==
    [status : Active \cup Terminal, inst : Instruments, cf : Cashflows \cup {NoCf},
     maker : Users \cup {Nobody}, reviewer : Users \cup {Nobody}, approver : Users \cup {Nobody},
     eirBaru : Rates \cup {NoRate}]

DriftReport == {"NONE", "IN_PROGRESS", "COMPLETED", "FAILED"}

Absent == [status |-> "NONE", maker |-> Nobody]
Idle == [op |-> "none"]
NoJob == [phase |-> "idle"]

EirTypeOK ==
    /\ eirAwal \in [Instruments -> Rates \cup {NoRate}]
    /\ \A i \in Instruments : schedule[i] \subseteq ScheduleRow
    /\ \A p \in Proposals : proposal[p] = Absent \/ proposal[p] \in AmendmentProposal
    /\ report \in [Reports -> DriftReport]
    /\ DOMAIN req = Sessions /\ DOMAIN job = Workers

EirInit ==
    /\ eirAwal = [i \in Instruments |-> NoRate]
    /\ schedule = [i \in Instruments |-> {}]
    /\ proposal = [p \in Proposals |-> Absent]
    /\ report = [r \in Reports |-> "NONE"]
    /\ req = [s \in Sessions |-> Idle]
    /\ job = [w \in Workers |-> NoJob]

-----------------------------------------------------------------------------
(* The repository: what one statement reads or writes.                     *)

ActiveRows(i) == {row \in schedule[i] : row.mark = 0}
HasActiveRows(i) == ActiveRows(i) # {}
GetMaxPeriodeSeq(i) == Max({0} \cup {row.seq : row \in ActiveRows(i)})

HasActiveProposal(i) ==
    \E p \in Proposals : proposal[p].status \in Active /\ proposal[p].inst = i

GetInProgressReport == {r \in Reports : report[r] = "IN_PROGRESS"}

(* INSERT of a batch; uq_schedule_active refuses a second active row with   *)
(* the same number.                                                         *)
CanInsert(rows, batch) ==
    \A row \in batch : \A old \in rows : old.mark = 0 => old.seq # row.seq
InsertBatch(rows, batch) == rows \cup batch

MarkSupersededLater(rows, first) ==
    {IF row.mark = 0 /\ row.seq >= first THEN [row EXCEPT !.mark = first] ELSE row : row \in rows}
MarkSuperseded(rows, first) ==
    {IF row.mark = 0 THEN [row EXCEPT !.mark = first] ELSE row : row \in rows}

CreatedUnknown(status, i, cf, u) ==
    [status |-> "SUBMITTED", inst |-> i, cf |-> cf, maker |-> u,
     reviewer |-> Nobody, approver |-> Nobody, eirBaru |-> NoRate]

(* The statement keeps no trigger_source, drift_report_id or document_id:   *)
(* whoever created a proposal, it reads back as MANUAL, and the unique      *)
(* index on (document_id, instrumen_id) never applies.                      *)
Created(status, i, cf, u) ==
    [status |-> status, inst |-> i, cf |-> cf, maker |-> u,
     reviewer |-> Nobody, approver |-> Nobody, eirBaru |-> NoRate]

(* UPDATE ... WHERE id: the status, people and results of the copy that was *)
(* loaded; the cash flows stay.  The CHECKs of migration 000032 keep the    *)
(* three people apart.                                                      *)
SodChecks(a) ==
    /\ a.reviewer = Nobody \/ a.reviewer # a.maker
    /\ a.approver = Nobody \/ (a.approver # a.maker /\ a.approver # a.reviewer)
Written(p, a) == [proposal EXCEPT ![p] = [a EXCEPT !.cf = proposal[p].cf]]

Cancelled(p) == [proposal EXCEPT ![p].status = "CANCELLED"]

-----------------------------------------------------------------------------
(* Rate and schedule.                                                       *)

isEIRApplicable(i) == Klasifikasi[i] \in {"AC", "FVOCI"} /\ MethodFlag[i]

Permitted(u, perm) == perm \in Perms[u]
Serve(s, r) == req[s] = Idle /\ req' = [req EXCEPT ![s] = r]
Done(s) == req' = [req EXCEPT ![s] = Idle]

(* The solver stops at NoRate when the flows do not change sign, the        *)
(* iteration does not converge, or the rate leaves its range.               *)
Solved(cf) == IF cf \in Cashflows THEN Solve[cf] ELSE NoRate

(* A POCI instrument takes the credit-adjusted mode and no other one.       *)
ModeFits(i, pociMode) == pociMode = Poci[i]

Compute(s, i, cf, pociMode, force) ==
    /\ Klasifikasi[i] \notin {"FVTPL", "FVOCI_ELECTION"} /\ MethodFlag[i]
    /\ force \/ eirAwal[i] = NoRate
    /\ ModeFits(i, pociMode)
    /\ Solved(cf) # NoRate
    /\ Serve(s, [op |-> "compute", inst |-> i, rate |-> Solved(cf)])
    /\ UNCHANGED <<eirAwal, schedule, proposal, report, job>>

ComputeEIR(s, u, i, cf, pociMode, force) ==
    Permitted(u, "eir.compute") /\ Compute(s, i, cf, pociMode, force)

UpdateEIRAwal(i, rate) == eirAwal' = [eirAwal EXCEPT ![i] = rate]

ComputeCommit(s) ==
    /\ req[s].op = "compute"
    /\ UpdateEIRAwal(req[s].inst, req[s].rate)
    /\ Done(s) /\ UNCHANGED <<schedule, proposal, report, job>>

BuildScheduleRows(cf, rate, first, from) ==
    {[seq |-> n, rate |-> rate, from |-> from, mark |-> 0] : n \in first .. first + Length[cf] - 1}

Generate(s, i, cf, force) ==
    /\ eirAwal[i] # NoRate
    /\ force \/ ~HasActiveRows(i)
    /\ Serve(s, [op |-> "generate", inst |-> i,
                 rows |-> BuildScheduleRows(cf, eirAwal[i], 1, Nobody)])
    /\ UNCHANGED <<eirAwal, schedule, proposal, report, job>>

GenerateSchedule(s, u, i, cf, force) ==
    Permitted(u, "eir.compute") /\ Generate(s, i, cf, force)

(* A forced generation does not supersede: where a number is taken, the     *)
(* insert fails and the transaction with it.                                *)
GenerateCommit(s) ==
    /\ req[s].op = "generate"
    /\ LET i == req[s].inst IN
       schedule' = IF CanInsert(schedule[i], req[s].rows)
                   THEN [schedule EXCEPT ![i] = InsertBatch(@, req[s].rows)] ELSE schedule
    /\ Done(s) /\ UNCHANGED <<eirAwal, proposal, report, job>>

-----------------------------------------------------------------------------
(* Amendments.                                                              *)

Propose(s, u, i, cf) ==
    /\ isEIRApplicable(i) /\ ~HasActiveProposal(i) /\ eirAwal[i] # NoRate
    /\ Serve(s, [op |-> "create", row |-> Created("PENDING_REVIEW", i, cf, u)])
    /\ UNCHANGED <<eirAwal, schedule, proposal, report, job>>

ProposeAmendment(s, u, i, cf) == Permitted(u, "eir.amend.propose") /\ Propose(s, u, i, cf)

isEIRApplicableForDetection(i) == Klasifikasi[i] \in {"AC", "FVOCI"} /\ MethodFlag[i]

(* The document must be of a category that announces an amendment; its      *)
(* parsed cash flows, if any, become the draft's.                           *)
DetectFromDocument(s, u, i, cf, amendmentDocument) ==
    /\ isEIRApplicableForDetection(i) /\ amendmentDocument /\ ~HasActiveProposal(i)
    /\ Serve(s, [op |-> "create", row |-> Created("DRAFT", i, cf, u)])
    /\ UNCHANGED <<eirAwal, schedule, proposal, report, job>>

DetectAmendment(s, u, i, cf, amendmentDocument) ==
    Permitted(u, "eir.amendment.detect") /\ DetectFromDocument(s, u, i, cf, amendmentDocument)

CreateCommit(s, p) ==
    /\ req[s].op = "create" /\ proposal[p] = Absent
    /\ proposal' = [proposal EXCEPT ![p] = req[s].row]
    /\ Done(s) /\ UNCHANGED <<eirAwal, schedule, report, job>>

MayUpdateCashflowsAnytime(a, u) == a.maker = u
MayUpdateCashflows(a, u) == a.status = "DRAFT" /\ a.maker = u

(* The transaction replaces the cash flows whatever the status is by then.  *)
UpdateCashflows(s, u, p, cf) ==
    /\ MayUpdateCashflows(proposal[p], u)
    /\ Serve(s, [op |-> "cashflows", p |-> p, cf |-> cf])
    /\ UNCHANGED <<eirAwal, schedule, proposal, report, job>>

PatchCashflows(s, u, p, cf) ==
    Permitted(u, "eir.amendment.update_cashflows") /\ UpdateCashflows(s, u, p, cf)

CashflowsCommit(s) ==
    /\ req[s].op = "cashflows"
    /\ proposal' = [proposal EXCEPT ![req[s].p].cf = req[s].cf]
    /\ Done(s) /\ UNCHANGED <<eirAwal, schedule, report, job>>

MayCancel(a, u) ==
    /\ a.maker = u
    /\ a.status = "DRAFT" \/ (a.status = "PENDING_REVIEW" /\ a.reviewer = Nobody)

CancelAmendment(s, u, p) ==
    /\ Permitted(u, "eir.amendment.cancel") /\ MayCancel(proposal[p], u)
    /\ Serve(s, [op |-> "cancel", p |-> p])
    /\ UNCHANGED <<eirAwal, schedule, proposal, report, job>>

CancelCommit(s) ==
    /\ req[s].op = "cancel"
    /\ proposal' = Cancelled(req[s].p)
    /\ Done(s) /\ UNCHANGED <<eirAwal, schedule, report, job>>

Review(s, u, p) ==
    /\ proposal[p].status = "PENDING_REVIEW" /\ proposal[p].maker # u
    /\ Serve(s, [op |-> "update", p |-> p,
                 row |-> [proposal[p] EXCEPT !.status = "PENDING_APPROVAL", !.reviewer = u]])
    /\ UNCHANGED <<eirAwal, schedule, proposal, report, job>>

ReviewAmendment(s, u, p) == Permitted(u, "eir.amend.review") /\ Review(s, u, p)

Reject(s, u, p) ==
    /\ proposal[p].status \in Active /\ proposal[p].maker # u
    /\ Serve(s, [op |-> "update", p |-> p, row |-> [proposal[p] EXCEPT !.status = "REJECTED"]])
    /\ UNCHANGED <<eirAwal, schedule, proposal, report, job>>

RejectAmendment(s, u, p) ==
    (Permitted(u, "eir.amend.review") \/ Permitted(u, "eir.amend.approve")) /\ Reject(s, u, p)

UpdateCommit(s) ==
    /\ req[s].op = "update"
    /\ proposal' = IF SodChecks(req[s].row) THEN Written(req[s].p, req[s].row) ELSE proposal
    /\ Done(s) /\ UNCHANGED <<eirAwal, schedule, report, job>>

(* The rate, the rows and the number of the first row are computed before   *)
(* the transaction.                                                         *)
Approve(s, u, p) ==
    /\ proposal[p].status = "PENDING_APPROVAL"
    /\ u \notin {proposal[p].maker, proposal[p].reviewer}
    /\ LET a == proposal[p]
           rate == Solved(a.cf)
           first == GetMaxPeriodeSeq(a.inst) + 1
       IN /\ rate # NoRate
          /\ first + Length[a.cf] - 1 <= MaxRows
          /\ Serve(s, [op |-> "approve", p |-> p, first |-> first,
                       rows |-> BuildScheduleRows(a.cf, rate, first, p),
                       row |-> [a EXCEPT !.status = "APPROVED", !.approver = u, !.eirBaru = rate]])
    /\ UNCHANGED <<eirAwal, schedule, proposal, report, job>>

(* The caller also holds a fresh second factor (claims.NeedsStepUp).        *)
ApproveAmendment(s, u, p, steppedUp) ==
    Permitted(u, "eir.amend.approve") /\ steppedUp /\ Approve(s, u, p)

SupersedingOnly(rows, first, batch) == MarkSuperseded(rows, first)
Superseding(rows, first, batch) == InsertBatch(MarkSuperseded(rows, first), batch)

ApproveCommit(s) ==
    /\ req[s].op = "approve"
    /\ LET r == req[s]
           i == r.row.inst
           ok == SodChecks(r.row) /\ CanInsert(MarkSuperseded(schedule[i], r.first), r.rows)
       IN IF ok
          THEN /\ schedule' = [schedule EXCEPT ![i] = Superseding(@, r.first, r.rows)]
               /\ UpdateEIRAwal(i, r.row.eirBaru)
               /\ proposal' = Written(r.p, r.row)
          ELSE UNCHANGED <<schedule, eirAwal, proposal>>
    /\ Done(s) /\ UNCHANGED <<report, job>>

-----------------------------------------------------------------------------
(* Drift reports and the read-only bulk recompute.                          *)

(* A recomputation reconstructs one projection from the active rows, in     *)
(* order; rows of two schedules do not make one (error or another rate).    *)
Recomputed(i) ==
    LET rates == {row.rate : row \in ActiveRows(i)} IN
    IF Cardinality(rates) = 1 THEN CHOOSE r \in rates : TRUE ELSE NoRate

Verdict(i) ==
    CASE eirAwal[i] = NoRate -> "missing"
      [] eirAwal[i] # NoRate /\ ~HasActiveRows(i) -> "missing"
      [] HasActiveRows(i) /\ eirAwal[i] # NoRate /\ Recomputed(i) = NoRate -> "error"
      [] OTHER -> IF Recomputed(i) = eirAwal[i] THEN "none" ELSE "drift"

ListActiveForBulk == {i \in Instruments : isEIRApplicable(i)}

(* EIR_DRIFT_GENERATION_IN_PROGRESS unless no report is in progress; asked  *)
(* before, and not in, the transaction that creates the new one.            *)
DriftCheck(w, u) ==
    /\ job[w] = NoJob /\ GetInProgressReport = {}
    /\ job' = [job EXCEPT ![w] = [phase |-> "create", actor |-> u]]
    /\ UNCHANGED <<eirAwal, schedule, proposal, report, req>>

DriftCreate(w, r) ==
    /\ job[w].phase = "create" /\ report[r] = "NONE"
    /\ report' = [report EXCEPT ![r] = "IN_PROGRESS"]
    /\ job' = [job EXCEPT ![w] = [phase |-> "scan", actor |-> job[w].actor, r |-> r,
                                  todo |-> ListActiveForBulk]]
    /\ UNCHANGED <<eirAwal, schedule, proposal, req>>

(* A HIGH drift without an active proposal opens a draft in a transaction   *)
(* of its own, which stays whatever becomes of the report.                  *)
DriftInstrument(w, i, high) ==
    /\ job[w].phase = "scan" /\ i \in job[w].todo
    /\ LET rest == [job[w] EXCEPT !.todo = @ \ {i}] IN
       job' = [job EXCEPT ![w] =
           IF Verdict(i) = "drift" /\ high /\ ~HasActiveProposal(i)
           THEN [phase |-> "propose", actor |-> rest.actor, r |-> rest.r, todo |-> rest.todo,
                 inst |-> i]
           ELSE rest]
    /\ UNCHANGED <<eirAwal, schedule, proposal, report, req>>

AutoProposal(w, p) ==
    /\ job[w].phase = "propose" /\ proposal[p] = Absent
    /\ proposal' = [proposal EXCEPT ![p] = Created("DRAFT", job[w].inst, NoCf, job[w].actor)]
    /\ job' = [job EXCEPT ![w] = [phase |-> "scan", actor |-> @.actor, r |-> @.r, todo |-> @.todo]]
    /\ UNCHANGED <<eirAwal, schedule, report, req>>

(* storeDriftEntries fails: the completion is rolled back and the report is *)
(* marked FAILED in another transaction.                                    *)
DriftFinish(w, stored) ==
    /\ job[w].phase = "scan" /\ job[w].todo = {}
    /\ report' = [report EXCEPT ![job[w].r] = IF stored THEN "COMPLETED" ELSE "FAILED"]
    /\ job' = [job EXCEPT ![w] = NoJob]
    /\ UNCHANGED <<eirAwal, schedule, proposal, req>>

(* Any other error, or the end of the process, leaves the report behind in  *)
(* IN_PROGRESS; the retry of the task finds it there and is refused.        *)
DriftDies(w) ==
    /\ job[w] # NoJob
    /\ job' = [job EXCEPT ![w] = NoJob]
    /\ UNCHANGED <<eirAwal, schedule, proposal, report, req>>

(* The daily task has no actor (uuid.Nil): its drafts have no maker who     *)
(* could complete or cancel them.                                           *)
HandleDriftTask(w) == DriftCheck(w, Nobody)
GenerateDriftReport(w, u) == Permitted(u, "eir.drift_report.generate") /\ DriftCheck(w, u)

-----------------------------------------------------------------------------
(* The rate an approved amendment carries is the rate of the cash flows it  *)
(* carries: what the approver approved is what the reviewer and the maker   *)
(* saw, although the cash flows are written by another request.             *)
ApprovedRateReviewed ==
    \A p \in Proposals : proposal[p].status = "APPROVED" =>
        proposal[p].eirBaru = Solved(proposal[p].cf) /\ proposal[p].eirBaru # NoRate

(* An approved amendment has its rows in the schedule, numbered without a   *)
(* gap, at the approved rate: no approval is recorded without its effect.   *)
ApprovalApplied ==
    \A p \in Proposals : proposal[p].status = "APPROVED" =>
        LET mine == {row \in schedule[proposal[p].inst] : row.from = p} IN
        /\ mine # {} /\ \A row \in mine : row.rate = proposal[p].eirBaru
        /\ \E n \in 1 .. MaxRows :
              n .. n + Length[proposal[p].cf] - 1 \subseteq {row.seq : row \in mine}

(* The step that approves an amendment leaves its rows, and no others,      *)
(* active, whatever was generated or approved since it was computed.        *)
NewScheduleAlone ==
    [][\A p \in Proposals :
         (proposal'[p].status = "APPROVED" /\ proposal[p].status # "APPROVED")
         => {row.from : row \in {x \in schedule'[proposal'[p].inst] : x.mark = 0}} = {p}]_eirVars

-----------------------------------------------------------------------------
RequestNext(s) ==
    \/ \E u \in Users, i \in Instruments, cf \in Cashflows :
          \/ \E b, f \in BOOLEAN : ComputeEIR(s, u, i, cf, b, f)
          \/ \E f \in BOOLEAN : GenerateSchedule(s, u, i, cf, f)
          \/ ProposeAmendment(s, u, i, cf)
    \/ \E u \in Users, i \in Instruments, cf \in Cashflows \cup {NoCf}, b \in BOOLEAN :
          DetectAmendment(s, u, i, cf, b)
    \/ \E u \in Users, p \in Proposals :
          \/ \E cf \in Cashflows : PatchCashflows(s, u, p, cf)
          \/ CancelAmendment(s, u, p) \/ ReviewAmendment(s, u, p) \/ RejectAmendment(s, u, p)
          \/ \E b \in BOOLEAN : ApproveAmendment(s, u, p, b)
    \/ \E p \in Proposals : CreateCommit(s, p)
    \/ ComputeCommit(s) \/ GenerateCommit(s) \/ CashflowsCommit(s)
    \/ CancelCommit(s) \/ UpdateCommit(s) \/ ApproveCommit(s)

JobNext(w) ==
    \/ HandleDriftTask(w)
    \/ \E u \in Users : GenerateDriftReport(w, u)
    \/ \E r \in Reports : DriftCreate(w, r)
    \/ \E i \in Instruments, high \in BOOLEAN : DriftInstrument(w, i, high)
    \/ \E p \in Proposals : AutoProposal(w, p)
    \/ \E stored \in BOOLEAN : DriftFinish(w, stored)
    \/ DriftDies(w)

EirNext == (\E s \in Sessions : RequestNext(s)) \/ (\E w \in Workers : JobNext(w))
EirSpec == EirInit /\ [][EirNext]_eirVars
=============================================================================
