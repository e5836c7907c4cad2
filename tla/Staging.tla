------------------------------ MODULE Staging ------------------------------
(***************************************************************************)
(* The IFRS 9 stage of an instrument (src/backend/internal/ecl/staging):   *)
(* days past due, the SICR evaluation that moves an instrument to stage 2  *)
(* or 3, the cure that brings it back to stage 1, and the override         *)
(* proposals signed by four or six pairs of eyes.                          *)
(*                                                                         *)
(* The stage is kept nowhere: it is read off ecl.stage_history, a table    *)
(* rows are only inserted into.  No handler locks what it reads, so each   *)
(* of them is two steps, the reads and checks that put a request into      *)
(* inFlight and the transaction that takes it out.  A request lasts less   *)
(* than a day.  Ratings are positions in pefindoScale, -1 when unknown;    *)
(* the rating of the day is an input of the evaluation.                    *)
(***************************************************************************)
EXTENDS Integers, FiniteSets, FiniteSetsExt

CONSTANTS
    Instrumen,      \* instruments classified AC or FVOCI, or FVTPL
    Fvtpl,
    Signers,        \* users who propose, review, approve and reject
    NoOne,
    Overrides,      \* ids of override proposals
    OriginRating,   \* rating of each instrument on its tanggal_penempatan
    Grades,         \* ratings the counterparty may have on a day
    Overdue,        \* dpd_value
    BulanLen,       \* days of a month
    Proposed,       \* months an override is proposed for
    MaxDay, MaxHistory, MaxDpd, MaxInFlight  \* bounds

ASSUME StagingAssumption ==
    /\ Fvtpl \subseteq Instrumen /\ NoOne \notin Signers
    /\ Grades \subseteq -1 .. 17 /\ OriginRating \in [Instrumen -> -1 .. 17]
    /\ Overdue \subseteq Nat /\ BulanLen \in Nat \ {0} /\ MaxDay \in Nat /\ Proposed \subseteq Nat
    /\ MaxHistory \in Nat /\ MaxInFlight \in Nat

VARIABLES
    today,
    closed,         \* first days of the monthly periods that are HARD_CLOSED
    dpdRecord,      \* trx.dpd_record
    stageHistory,   \* ecl.stage_history
    override,       \* ecl.staging_override_proposal
    inFlight        \* the requests between their reads and their transaction

stagingVars == <<today, closed, dpdRecord, stageHistory, override, inFlight>>

Stages == 1 .. 3
Bulan == {BulanLen * n : n \in 0 .. (MaxDay \div BulanLen)}
firstOfNextMonth(p) == p + BulanLen

NoOverride == [status |-> "NONE"]
PendingOverride == {"PENDING_REVIEW", "PENDING_APPROVAL", "APPROVED_ALCO"}
OverrideStatus == PendingOverride \cup {"ACTIVE", "EXPIRED", "REJECTED"}

TriggerType == {"RATING_DOWNGRADE", "IG_TO_NON_IG", "RATING_DEFAULT", "DPD_GTE_30",
                "DPD_GTE_90", "CURE_3_PERIODE_BULANAN", "MANUAL_OVERRIDE"}

StageHistoryEntry ==
    [instrumen : Instrumen, sebelum : Stages, sesudah : Stages, trigger : TriggerType,
     tanggal : 0 .. MaxDay, dibuat : 0 .. MaxHistory, proposal : Overrides \cup {NoOne}]

OverrideProposal ==
    [status : OverrideStatus, instrumen : Instrumen, from : Stages, to : Stages,
     akhir : Nat, maker : Signers, reviewer : Signers \cup {NoOne},
     alco : Signers \cup {NoOne}, komite : Signers \cup {NoOne}, activated : BOOLEAN]

StagingTypeOK ==
    /\ today \in 0 .. MaxDay /\ closed \subseteq Bulan
    /\ \A r \in dpdRecord : r.instrumen \in Instrumen /\ r.periode \in Bulan /\ r.dpd \in Overdue
    /\ stageHistory \subseteq StageHistoryEntry
    /\ \A id \in Overrides : override[id] = NoOverride \/ override[id] \in OverrideProposal
    /\ Cardinality(inFlight) <= MaxInFlight

StagingInit ==
    /\ today = 0 /\ closed = {} /\ dpdRecord = {} /\ stageHistory = {} /\ inFlight = {}
    /\ override = [id \in Overrides |-> NoOverride]

-----------------------------------------------------------------------------
(* What one statement reads.                                                *)

RowsOf(i) == {row \in stageHistory : row.instrumen = i}

(* ORDER BY tanggal_migrasi DESC, created_at DESC LIMIT 1: rows that tie on *)
(* both come in any order.  No row at all means stage 1 to every caller.    *)
Latest(rows) == {row \in rows : \A other \in rows :
                    \/ other.tanggal < row.tanggal
                    \/ other.tanggal = row.tanggal /\ other.dibuat <= row.dibuat}
CurrentStagesUnset(i) ==
    IF RowsOf(i) = {} THEN {0} ELSE {row.sesudah : row \in Latest(RowsOf(i))}
CurrentStages(i) ==
    IF RowsOf(i) = {} THEN {1} ELSE {row.sesudah : row \in Latest(RowsOf(i))}

(* GetLatestDPD: the latest month recorded, zero when there is none.        *)
LatestDPD(i) ==
    LET mine == {r \in dpdRecord : r.instrumen = i}
    IN IF mine = {} THEN 0 ELSE (CHOOSE r \in mine : \A q \in mine : q.periode <= r.periode).dpd

CountDPDAboveThreshold(i, from, to, threshold) ==
    Cardinality({r \in dpdRecord : /\ r.instrumen = i /\ r.dpd >= threshold
                                   /\ r.periode \in from .. to})

SicrRows(i) == {row \in RowsOf(i) : row.sesudah \in {2, 3}}
GetLastSICRDate(i) == Max({row.tanggal : row \in SicrRows(i)})
HasSICRInPeriode(i, from, to) == \E row \in SicrRows(i) : row.tanggal \in from .. to

ListClosedBulananSince(from) == {p \in closed : p >= from}
ListActiveForInstrumen(i) ==
    {id \in Overrides : override[id].status \in PendingOverride /\ override[id].instrumen = i}
ListExpiredActive(day) ==
    {id \in Overrides : override[id].status = "ACTIVE" /\ override[id].akhir < day}

(* INSERT into the history; uq_stage_history_idempotency is on instrument,  *)
(* date and trigger.                                                        *)
Conflicts(row) == \E old \in RowsOf(row.instrumen) :
                      old.tanggal = row.tanggal /\ old.trigger = row.trigger
Entry(i, sebelum, sesudah, trigger, tanggal, id) ==
    [instrumen |-> i, sebelum |-> sebelum, sesudah |-> sesudah, trigger |-> trigger,
     tanggal |-> tanggal, dibuat |-> Cardinality(stageHistory), proposal |-> id]

-----------------------------------------------------------------------------
Serving(r) == /\ Cardinality(inFlight) < MaxInFlight /\ r \notin inFlight
              /\ inFlight' = inFlight \cup {r}
Served(r) == inFlight' = inFlight \ {r}

(* Days past due of a month: an upsert, one record per instrument and month. *)
UpsertDPD(rec) ==
    LET older == {r \in dpdRecord : r.instrumen = rec.instrumen /\ r.periode = rec.periode}
    IN /\ Cardinality(dpdRecord \ older) < MaxDpd
       /\ dpdRecord' = (dpdRecord \ older) \cup {rec}
RecordDPD(i, periode, dpd) ==
    /\ UpsertDPD([instrumen |-> i, periode |-> periode, dpd |-> dpd])
    /\ UNCHANGED <<today, closed, stageHistory, override, inFlight>>

-----------------------------------------------------------------------------
(* SICR evaluation.                                                         *)

IsDefaultRating(r) == r = 17
IsInvestmentGrade(r) == r \in 0 .. 9
DeltaNotch(from, to) == IF from < 0 \/ to < 0 THEN 0 ELSE to - from

EvaluateSICR(origin, current, previous, dpd) ==
    CASE IsDefaultRating(current) -> "RATING_DEFAULT"
      [] ~IsDefaultRating(current) /\ dpd >= 30 -> "DPD_GTE_30"
      [] ~IsDefaultRating(current) /\ dpd < 30 /\ DeltaNotch(origin, current) >= 2 ->
            "RATING_DOWNGRADE"
      [] ~IsDefaultRating(current) /\ dpd < 30 /\ DeltaNotch(origin, current) < 2
         /\ IsInvestmentGrade(previous) /\ ~IsInvestmentGrade(current) -> "IG_TO_NON_IG"
      [] OTHER -> "NONE"

ComputeNewStage(stage, sicr, dpd) ==
    IF sicr = "RATING_DEFAULT" \/ dpd >= 90 THEN 3
    ELSE IF sicr # "NONE" /\ stage = 1 THEN 2 ELSE stage

(* The moves one evaluation writes: from stage 1 into default two of them,  *)
(* through stage 2, both with the same date and the same created_at.        *)
Moves(stage, new, sicr) ==
    CASE new = 3 /\ stage = 1 -> {<<1, 2, "DPD_GTE_30">>, <<2, 3, "DPD_GTE_90">>}
      [] new = 3 /\ stage # 1 -> {<<stage, 3, "DPD_GTE_90">>}
      [] new = 2 -> {<<1, 2, sicr>>}

EvaluateSingleInstrumen(i, rating) ==
    /\ i \notin Fvtpl
    /\ \E stage \in CurrentStages(i) :
        LET dpd == LatestDPD(i)
            sicr == EvaluateSICR(OriginRating[i], rating, OriginRating[i], dpd)
            new == ComputeNewStage(stage, sicr, dpd)
        IN /\ stage # 3 /\ new # stage
           /\ Serving([op |-> "evaluate", instrumen |-> i, moves |-> Moves(stage, new, sicr)])
    /\ UNCHANGED <<today, closed, dpdRecord, stageHistory, override>>

(* Every instrument of a request, or of its tasks, is evaluated by itself:  *)
(* an error leaves those before it evaluated.                               *)
EvaluateHandler == \E i \in Instrumen, g \in Grades : EvaluateSingleInstrumen(i, g)

(* A conflict on either row aborts the transaction: nothing is written, and *)
(* the caller is told of the new stage (first row) or of a failed commit.   *)
EvaluateCommit(r) ==
    LET rows == {Entry(r.instrumen, m[1], m[2], m[3], today, NoOne) : m \in r.moves}
    IN /\ r.op = "evaluate" /\ Served(r)
       /\ Cardinality(stageHistory \cup rows) <= MaxHistory
       /\ stageHistory' = IF \E row \in rows : Conflicts(row) THEN stageHistory
                          ELSE stageHistory \cup rows
       /\ UNCHANGED <<today, closed, dpdRecord, override>>

-----------------------------------------------------------------------------
(* Cure: three closed months without days past due and without a SICR row.  *)

CurePeriodsTwo(i) ==
    LET closedPeriods == ListClosedBulananSince(GetLastSICRDate(i))
    IN {P \in kSubset(2, closedPeriods) : \A p \in P : \A q \in closedPeriods \ P : q < p}
CurePeriods(i) ==
    LET closedPeriods == ListClosedBulananSince(GetLastSICRDate(i))
    IN {P \in kSubset(3, closedPeriods) : \A p \in P : \A q \in closedPeriods \ P : q < p}

CleanPeriode(i, p) ==
    /\ CountDPDAboveThreshold(i, p, firstOfNextMonth(p), 30) = 0
    /\ ~HasSICRInPeriode(i, p, firstOfNextMonth(p))

AssessCure(i) ==
    /\ i \notin Fvtpl /\ RowsOf(i) # {} /\ 2 \in CurrentStages(i)
    /\ \E recent \in CurePeriods(i) :
        /\ \A p \in recent : CleanPeriode(i, p)
        /\ Serving([op |-> "cure", instrumen |-> i, tanggal |-> Max(recent)])
    /\ UNCHANGED <<today, closed, dpdRecord, stageHistory, override>>

(* The batch over the instruments in stage 2, each by itself.               *)
ListStage2Instruments == {i \in Instrumen \ Fvtpl : RowsOf(i) # {} /\ 2 \in CurrentStages(i)}
HandleCureAssessmentBatch == \E i \in ListStage2Instruments : AssessCure(i)

(* The row bears the first day of the last of the three months; a second    *)
(* assessment of the same months conflicts and reports success.             *)
CureCommit(r) ==
    LET row == Entry(r.instrumen, 2, 1, "CURE_3_PERIODE_BULANAN", r.tanggal, NoOne)
    IN /\ r.op = "cure" /\ Served(r)
       /\ Cardinality(stageHistory) < MaxHistory
       /\ stageHistory' = IF Conflicts(row) THEN stageHistory ELSE stageHistory \cup {row}
       /\ UNCHANGED <<today, closed, dpdRecord, override>>

-----------------------------------------------------------------------------
(* Override proposals.                                                      *)

Is6Eyes(o) == o.from = 3 /\ o.to = 2
validateOverrideTransition(from, to) == <<from, to>> \in {<<3, 2>>, <<2, 1>>}

SubmitOverride(i, target, periode, u) ==
    /\ target \in Stages
    /\ \E from \in CurrentStages(i) :
        /\ validateOverrideTransition(from, target)
        /\ ListActiveForInstrumen(i) = {}
        /\ Serving([op |-> "submit", instrumen |-> i, from |-> from, to |-> target,
                    akhir |-> firstOfNextMonth(periode) - 1, actor |-> u])
    /\ UNCHANGED <<today, closed, dpdRecord, stageHistory, override>>

SubmitCommit(r) ==
    /\ r.op = "submit" /\ Served(r)
    /\ \E id \in Overrides :
        /\ override[id] = NoOverride
        /\ override' = [override EXCEPT ![id] =
               [status |-> "PENDING_REVIEW", instrumen |-> r.instrumen, from |-> r.from,
                to |-> r.to, akhir |-> r.akhir, maker |-> r.actor, reviewer |-> NoOne,
                alco |-> NoOne, komite |-> NoOne, activated |-> FALSE]]
    /\ UNCHANGED <<today, closed, dpdRecord, stageHistory>>

(* What a reviewer, approver or rejecter loads and is checked against.      *)
Sign(op, id, u, statuses, others) ==
    /\ override[id].status \in statuses
    /\ u \notin others
    /\ Serving([op |-> op, id |-> id, actor |-> u, seen |-> override[id].status])
    /\ UNCHANGED <<today, closed, dpdRecord, stageHistory, override>>

ReviewOverride(id, u) == Sign("review", id, u, {"PENDING_REVIEW"}, {override[id].maker})

ApproveALCO(id, u, needsStepUp) ==
    /\ ~needsStepUp
    /\ Sign("alco", id, u, {"PENDING_APPROVAL"}, {override[id].maker, override[id].reviewer})

ApproveKomite(id, u, needsStepUp) ==
    /\ ~needsStepUp
    /\ override[id].status # "NONE" => Is6Eyes(override[id])
    /\ Sign("komite", id, u, {"APPROVED_ALCO"},
            {override[id].maker, override[id].reviewer, override[id].alco})

RejectOverride(id, u) == Sign("reject", id, u, PendingOverride, {override[id].maker})

SodConstraintsDropped(o) == TRUE
(* chk_sop_sod_*: whoever has signed, the signers are different people.     *)
SodConstraints(o) ==
    LET signed == {k \in {"maker", "reviewer", "alco", "komite"} : o[k] # NoOne}
    IN \A k, l \in signed : k # l => o[k] # o[l]

(* Every statement is an UPDATE ... WHERE id: it does not look at the       *)
(* status again.                                                            *)
OverrideWritten(id, o) ==
    override' = IF SodConstraints(o) THEN [override EXCEPT ![id] = o] ELSE override

ReviewCommit(r) ==
    /\ r.op = "review" /\ Served(r)
    /\ OverrideWritten(r.id, [override[r.id] EXCEPT !.status = "PENDING_APPROVAL",
                                                    !.reviewer = r.actor])
    /\ UNCHANGED <<today, closed, dpdRecord, stageHistory>>

(* The last signature: ACTIVE, and in the same transaction the history row  *)
(* of today from the stages of the proposal.                                *)
activateOverride(id, o) ==
    LET row == Entry(o.instrumen, o.from, o.to, "MANUAL_OVERRIDE", today, id)
        ok == SodConstraints(o) /\ ~Conflicts(row)
    IN /\ Cardinality(stageHistory) < MaxHistory
       /\ stageHistory' = IF ok THEN stageHistory \cup {row} ELSE stageHistory
       /\ override' = IF ok THEN [override EXCEPT ![id] =
                                      [o EXCEPT !.status = "ACTIVE", !.activated = TRUE]]
                      ELSE override

AlcoCommitAlwaysActive(r) ==
    LET o == [override[r.id] EXCEPT !.alco = r.actor]
    IN /\ r.op = "alco" /\ Served(r)
       /\ activateOverride(r.id, o)
       /\ UNCHANGED <<today, closed, dpdRecord>>
AlcoCommit(r) ==
    LET o == [override[r.id] EXCEPT !.alco = r.actor]
    IN /\ r.op = "alco" /\ Served(r)
       /\ IF Is6Eyes(o)
          THEN OverrideWritten(r.id, [o EXCEPT !.status = "APPROVED_ALCO"]) /\ UNCHANGED stageHistory
          ELSE activateOverride(r.id, o)
       /\ UNCHANGED <<today, closed, dpdRecord>>

KomiteCommit(r) ==
    /\ r.op = "komite" /\ Served(r)
    /\ activateOverride(r.id, [override[r.id] EXCEPT !.komite = r.actor])
    /\ UNCHANGED <<today, closed, dpdRecord>>

RejectCommit(r) ==
    /\ r.op = "reject" /\ Served(r)
    /\ OverrideWritten(r.id, [override[r.id] EXCEPT !.status = "REJECTED"])
    /\ UNCHANGED <<today, closed, dpdRecord, stageHistory>>

(* The expiry task lists the overrides that ran out and marks them one by   *)
(* one; it writes no history row, the overridden stage stays.               *)
HandleOverrideExpiryCheck(id) ==
    /\ id \in ListExpiredActive(today)
    /\ Serving([op |-> "expire", id |-> id])
    /\ UNCHANGED <<today, closed, dpdRecord, stageHistory, override>>
MarkExpired(r) ==
    /\ r.op = "expire" /\ Served(r)
    /\ override' = [override EXCEPT ![r.id].status = "EXPIRED"]
    /\ UNCHANGED <<today, closed, dpdRecord, stageHistory>>

-----------------------------------------------------------------------------
(* The calendar, and months being closed for good by the accountants.       *)
NextDay ==
    /\ today < MaxDay /\ inFlight = {}
    /\ today' = today + 1
    /\ UNCHANGED <<closed, dpdRecord, stageHistory, override, inFlight>>

HardClose(p) ==
    /\ firstOfNextMonth(p) <= today /\ p \notin closed
    /\ closed' = closed \cup {p}
    /\ UNCHANGED <<today, dpdRecord, stageHistory, override, inFlight>>

CommitNext(r) ==
    \/ EvaluateCommit(r) \/ CureCommit(r)
    \/ SubmitCommit(r) \/ ReviewCommit(r) \/ AlcoCommit(r) \/ KomiteCommit(r)
    \/ RejectCommit(r) \/ MarkExpired(r)

StageNext ==
    \/ \E i \in Instrumen, p \in Bulan, d \in Overdue : RecordDPD(i, p, d)
    \/ EvaluateHandler
    \/ HandleCureAssessmentBatch
    \/ NextDay
    \/ \E p \in Bulan : HardClose(p)

OverrideNext ==
    \/ \E i \in Instrumen, to \in Stages, p \in Proposed, u \in Signers : SubmitOverride(i, to, p, u)
    \/ \E id \in Overrides, u \in Signers :
        \/ ReviewOverride(id, u) \/ RejectOverride(id, u)
        \/ \E needsStepUp \in BOOLEAN : ApproveALCO(id, u, needsStepUp)
                                        \/ ApproveKomite(id, u, needsStepUp)
    \/ \E id \in Overrides : HandleOverrideExpiryCheck(id)

StagingNext == StageNext \/ OverrideNext \/ \E r \in inFlight : CommitNext(r)
StagingSpec == StagingInit /\ [][StagingNext]_stagingVars

-----------------------------------------------------------------------------
(* Whatever requests of the same user or of several cross, nobody signs a   *)
(* proposal twice: the copy a service checks may be stale, so the CHECKs of *)
(* migration 000022 decide.                                                 *)
DistinctSigners ==
    \A id \in Overrides : override[id] # NoOverride =>
        LET o == override[id]
        IN Cardinality({k \in {"maker", "reviewer", "alco", "komite"} : o[k] # NoOne}) =
           Cardinality({o.maker, o.reviewer, o.alco, o.komite} \ {NoOne})

(* A stage is overridden by a fully signed proposal and by nothing less,    *)
(* the way out of stage 3 with the committee's signature; a proposal in     *)
(* force or expired has its row (service.go activateOverride).              *)
OverridesBacked ==
    /\ \A row \in stageHistory : row.trigger = "MANUAL_OVERRIDE" =>
        LET o == override[row.proposal]
        IN /\ <<row.sebelum, row.sesudah>> = <<o.from, o.to>>
           /\ o.reviewer # NoOne /\ o.alco # NoOne
           /\ row.sebelum = 3 => o.komite # NoOne
    /\ \A id \in Overrides : override[id].status \in {"ACTIVE", "EXPIRED"} =>
        \E row \in stageHistory : row.proposal = id

(* A cure is earned: three closed months end with the month it is dated in, *)
(* and no SICR row falls in any of them, not even one written by a request  *)
(* that crossed the assessment (service.go AssessCure).                     *)
CureEarned ==
    \A cure \in stageHistory : cure.trigger = "CURE_3_PERIODE_BULANAN" =>
        \E P \in kSubset(3, closed) :
            /\ Max(P) = cure.tanggal
            /\ \A p \in P : ~\E row \in SicrRows(cure.instrumen) :
                   row.tanggal \in p .. firstOfNextMonth(p) - 1

(* p4-m1-staging.md:44 "Auto-cure ke Stage 2/1 TIDAK ada": between a row    *)
(* into stage 3 and a cure there is a signed override out of it.            *)
NoAutoCure ==
    \A cure, bad \in stageHistory :
        (/\ cure.trigger = "CURE_3_PERIODE_BULANAN" /\ bad.instrumen = cure.instrumen
         /\ bad.sesudah = 3 /\ bad.tanggal < cure.tanggal /\ bad.dibuat < cure.dibuat) =>
            \E row \in stageHistory : row.instrumen = bad.instrumen /\ row.sebelum = 3
                                      /\ row.dibuat \in bad.dibuat .. cure.dibuat
=============================================================================
