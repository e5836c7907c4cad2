------------------------------ MODULE EirProofs ------------------------------
(***************************************************************************)
(* What EIR amendments keep for any number of sessions, users, instruments,*)
(* proposals, reports and workers.                                         *)
(*                                                                         *)
(* The argument: a proposal is loose while its cash flows may still be     *)
(* replaced (a draft, or one a replacement is on its way to) and frozen    *)
(* from the moment it waits for review.  No proposal is both, so what a    *)
(* request computed from the cash flows of a frozen one stays true until   *)
(* its transaction, however requests cross.                                *)
(***************************************************************************)
EXTENDS Eir, TLAPS, WellFoundedInduction

-----------------------------------------------------------------------------
Exists(p) == p \in Proposals /\ proposal[p] # Absent

(* A request that has put p on its way to approval.                         *)
Freezes(r, p) == \/ r.op = "update" /\ r.p = p /\ r.row.status = "PENDING_APPROVAL"
                 \/ r.op = "approve" /\ r.p = p
Replaces(r, p) == r.op = "cashflows" /\ r.p = p

Loose(p) == \/ proposal[p].status \in {"NONE", "DRAFT"}
            \/ \E s \in Sessions : Replaces(req[s], p)
Frozen(p) == \/ proposal[p].status \in {"PENDING_REVIEW", "PENDING_APPROVAL", "APPROVED"}
             \/ \E s \in Sessions : Freezes(req[s], p)
             \/ \E i \in Instruments : \E row \in schedule[i] : row.from = p

(* What a request carries from its reads to its transaction.                *)
ComputeOK(r) == r.op = "compute" /\ r.inst \in Instruments /\ r.rate \in Rates
GenerateOK(r) ==
    /\ r.op = "generate" /\ r.inst \in Instruments
    /\ r.rows \subseteq ScheduleRow /\ \A row \in r.rows : row.seq \in 1 .. MaxRows /\ row.from = Nobody
CreateOK(r) ==
    r.op = "create" /\ r.row \in AmendmentProposal /\ r.row.status \in {"DRAFT", "PENDING_REVIEW"}
CashflowsOK(r) == r.op = "cashflows" /\ Exists(r.p) /\ r.cf \in Cashflows
CancelOK(r) == r.op = "cancel" /\ Exists(r.p)
UpdateOK(r) ==
    /\ r.op = "update" /\ Exists(r.p) /\ r.row \in AmendmentProposal
    /\ r.row.status \in {"PENDING_APPROVAL", "REJECTED"} /\ r.row.inst = proposal[r.p].inst
ApproveOK(r) ==
    /\ r.op = "approve" /\ Exists(r.p) /\ r.row \in AmendmentProposal
    /\ r.row.status = "APPROVED" /\ r.row.inst = proposal[r.p].inst
    /\ r.row.cf = proposal[r.p].cf /\ r.row.cf \in Cashflows
    /\ r.row.eirBaru = Solve[r.row.cf] /\ r.row.eirBaru \in Rates
    /\ r.first \in 1 .. MaxRows /\ r.first + Length[r.row.cf] - 1 <= MaxRows
    /\ r.rows = BuildScheduleRows(r.row.cf, r.row.eirBaru, r.first, r.p)

ReqOK(r) == \/ r = Idle \/ ComputeOK(r) \/ GenerateOK(r) \/ CreateOK(r) \/ CashflowsOK(r)
            \/ CancelOK(r) \/ UpdateOK(r) \/ ApproveOK(r)

JobOK(j) ==
    \/ j = NoJob
    \/ j.phase = "create" /\ j.actor \in Users \cup {Nobody}
    \/ j.phase = "scan" /\ j.actor \in Users \cup {Nobody} /\ j.r \in Reports
    \/ j.phase = "propose" /\ j.actor \in Users \cup {Nobody} /\ j.r \in Reports
       /\ j.inst \in Instruments

Typed ==
    /\ eirAwal \in [Instruments -> Rates \cup {NoRate}]
    /\ report \in [Reports -> DriftReport]
    /\ DOMAIN schedule = Instruments /\ DOMAIN proposal = Proposals
    /\ DOMAIN req = Sessions /\ DOMAIN job = Workers
    /\ \A i \in Instruments : schedule[i] \subseteq ScheduleRow /\ \A row \in schedule[i] : row.seq \in 1 .. MaxRows
    /\ \A p \in Proposals : proposal[p] = Absent \/ proposal[p] \in AmendmentProposal

(* The rows an amendment left in a schedule are at the rate of its flows.   *)
RowsOK ==
    \A i \in Instruments : \A row \in schedule[i] : row.from \in Proposals =>
        LET a == proposal[row.from] IN
        a # Absent /\ a.inst = i /\ a.cf \in Cashflows /\ row.rate = Solve[a.cf]

ApprovedOK(p) ==
    proposal[p].status = "APPROVED" =>
        LET a == proposal[p] IN
        /\ a.cf \in Cashflows /\ a.eirBaru = Solve[a.cf] /\ a.eirBaru \in Rates
        /\ \E n \in 1 .. MaxRows :
              n .. n + Length[a.cf] - 1
                  \subseteq {row.seq : row \in {x \in schedule[a.inst] : x.from = p}}

Separate == \A p \in Proposals : ~(Loose(p) /\ Frozen(p))

IInv ==
    /\ Typed
    /\ \A s \in Sessions : ReqOK(req[s])
    /\ \A w \in Workers : JobOK(job[w])
    /\ Separate
    /\ RowsOK
    /\ \A p \in Proposals : ApprovedOK(p)

-----------------------------------------------------------------------------
(* The numbers in use are bounded, so the largest one is a number in use.   *)
LEMMA MaxIsOne ==
    ASSUME NEW S, S \subseteq 0 .. MaxRows, S # {}
    PROVE  Max(S) \in S /\ \A n \in S : n <= Max(S)
<1> DEFINE D == {MaxRows - n : n \in S}
<1>0. MaxRows \in Nat
  BY EirAssumption
<1>1. D \subseteq Nat /\ D # {}
  <2>1. \A n \in S : n \in Nat /\ n <= MaxRows
    BY <1>0
  <2>2. PICK n \in S : TRUE
    OBVIOUS
  <2>3. MaxRows - n \in D
    BY <2>2
  <2>4. ASSUME NEW d \in D PROVE d \in Nat
    <3>1. PICK m \in S : d = MaxRows - m
      OBVIOUS
    <3>2. m \in Nat /\ m <= MaxRows
      BY <2>1
    <3> QED BY <1>0, <3>1, <3>2
  <2> QED BY <2>3, <2>4
<1>2. PICK d \in D : \A m \in D : ~ <<m, d>> \in OpToRel(<, Nat)
  BY <1>1, NatLessThanWellFounded, WFMin
<1>3. PICK x \in S : d = MaxRows - x
  OBVIOUS
<1>4. ASSUME NEW n \in S PROVE n <= x
  <2>1. MaxRows - n \in D /\ MaxRows - n \in Nat /\ d \in Nat /\ n \in Nat /\ x \in Nat
    BY <1>1
  <2>2. ~(MaxRows - n < d)
    BY <1>2, <2>1 DEF OpToRel
  <2> QED BY <1>0, <1>3, <2>1, <2>2
<1> HIDE DEF D
<1> QED BY <1>3, <1>4 DEF Max

LEMMA NextNumber ==
    ASSUME Typed, NEW i \in Instruments
    PROVE  GetMaxPeriodeSeq(i) \in Nat
<1> DEFINE S == {0} \cup {row.seq : row \in ActiveRows(i)}
<1>1. S \subseteq 0 .. MaxRows /\ S # {}
  BY EirAssumption DEF Typed, ActiveRows
<1>2. Max(S) \in S
  BY <1>1, MaxIsOne
<1> QED BY <1>1, <1>2 DEF GetMaxPeriodeSeq

LEMMA BuiltRows ==
    ASSUME NEW cf \in Cashflows, NEW rate \in Rates, NEW first \in 1 .. MaxRows,
           NEW from \in Proposals \cup {Nobody}, first + Length[cf] - 1 <= MaxRows
    PROVE  LET rows == BuildScheduleRows(cf, rate, first, from) IN
           /\ rows \subseteq ScheduleRow
           /\ \A row \in rows : row.seq \in 1 .. MaxRows /\ row.from = from /\ row.rate = rate /\ row.mark = 0
           /\ first .. first + Length[cf] - 1 = {row.seq : row \in rows}
           /\ rows # {}
<1>1. Length[cf] \in Nat /\ Length[cf] >= 1 /\ first \in Nat /\ MaxRows \in Nat
  BY EirAssumption
<1>2. \A n \in first .. first + Length[cf] - 1 : n \in 1 .. MaxRows /\ n \in Nat
  BY <1>1
<1>3. first \in first .. first + Length[cf] - 1
  BY <1>1
<1>4. BuildScheduleRows(cf, rate, first, from) =
        {[seq |-> n, rate |-> rate, from |-> from, mark |-> 0] : n \in first .. first + Length[cf] - 1}
  BY DEF BuildScheduleRows
<1>5. \A row \in BuildScheduleRows(cf, rate, first, from) :
         /\ row \in ScheduleRow /\ row.seq \in first .. first + Length[cf] - 1
         /\ row.from = from /\ row.rate = rate /\ row.mark = 0
  BY <1>2, <1>4 DEF ScheduleRow
<1>6. \A n \in first .. first + Length[cf] - 1 :
         \E row \in BuildScheduleRows(cf, rate, first, from) : row.seq = n
  <2> SUFFICES ASSUME NEW n \in first .. first + Length[cf] - 1
               PROVE  \E row \in BuildScheduleRows(cf, rate, first, from) : row.seq = n
    OBVIOUS
  <2> DEFINE row == [seq |-> n, rate |-> rate, from |-> from, mark |-> 0]
  <2>1. row \in BuildScheduleRows(cf, rate, first, from) /\ row.seq = n
    BY <1>4
  <2> QED BY <2>1
<1> QED BY <1>2, <1>3, <1>5, <1>6

\* Instruments without a rate, a schedule or a proposal satisfy the invariant.
THEOREM Initially == EirInit => IInv
<1> SUFFICES ASSUME EirInit PROVE IInv
  OBVIOUS
<1>1. Typed
  BY DEF EirInit, Typed, DriftReport
<1>2. /\ \A s \in Sessions : req[s] = Idle
      /\ \A w \in Workers : job[w] = NoJob
      /\ \A p \in Proposals : proposal[p].status = "NONE"
      /\ \A i \in Instruments : schedule[i] = {}
  BY DEF EirInit, Absent
<1>3. \A p \in Proposals : ~Frozen(p)
  BY <1>2 DEF Frozen, Freezes, Idle
<1> QED BY <1>1, <1>2, <1>3 DEF IInv, ReqOK, JobOK, Separate, RowsOK, ApprovedOK

-----------------------------------------------------------------------------
(* A request in its first step: only what the session remembers changes.    *)
LEMMA ServeStep ==
    ASSUME IInv, NEW s \in Sessions, NEW r, Serve(s, r), ReqOK(r),
           UNCHANGED <<eirAwal, schedule, proposal, report, job>>,
           \A p \in Proposals : Freezes(r, p) => Frozen(p),
           \A p \in Proposals : Replaces(r, p) => Loose(p)
    PROVE  IInv'
<1>1. DOMAIN req' = Sessions /\ req'[s] = r /\ \A o \in Sessions \ {s} : req'[o] = req[o]
  BY DEF Serve, IInv, Typed
<1>2. \A o \in Sessions : ReqOK(req'[o])
  BY <1>1 DEF IInv
<1>3. \A q : ReqOK(q)' <=> ReqOK(q)
  BY DEF ReqOK, ComputeOK, GenerateOK, CreateOK, CashflowsOK, CancelOK, UpdateOK, ApproveOK, Exists
<1>4. \A o \in Sessions : ReqOK(req[o])'
  BY <1>1, <1>2 DEF ReqOK, ComputeOK, GenerateOK, CreateOK, CashflowsOK, CancelOK, UpdateOK, ApproveOK, Exists
<1>5. \A p \in Proposals : (Loose(p)' => Loose(p)) /\ (Frozen(p)' => Frozen(p))
  BY <1>1 DEF Loose, Frozen, Freezes, Replaces
<1>6. Typed'
  BY <1>1 DEF IInv, Typed
<1> QED BY <1>4, <1>5, <1>6 DEF IInv, JobOK, Separate, RowsOK, ApprovedOK

LEMMA ComputeStep ==
    ASSUME IInv, NEW s \in Sessions, NEW u \in Users, NEW i \in Instruments, NEW cf \in Cashflows,
           NEW b \in BOOLEAN, NEW f \in BOOLEAN, ComputeEIR(s, u, i, cf, b, f)
    PROVE  IInv'
<1> DEFINE r == [op |-> "compute", inst |-> i, rate |-> Solved(cf)]
<1>1. Serve(s, r) /\ UNCHANGED <<eirAwal, schedule, proposal, report, job>> /\ Solved(cf) # NoRate
  BY DEF ComputeEIR, Compute
<1>2. r.op = "compute" /\ r.inst = i /\ r.rate \in Rates
  BY <1>1, EirAssumption DEF Solved
<1> HIDE DEF r
<1> QED BY <1>1, <1>2, ServeStep DEF ReqOK, ComputeOK, Freezes, Replaces

LEMMA GenerateStep ==
    ASSUME IInv, NEW s \in Sessions, NEW u \in Users, NEW i \in Instruments, NEW cf \in Cashflows,
           NEW f \in BOOLEAN, GenerateSchedule(s, u, i, cf, f)
    PROVE  IInv'
<1> DEFINE rows == BuildScheduleRows(cf, eirAwal[i], 1, Nobody)
           r == [op |-> "generate", inst |-> i, rows |-> rows]
<1>1. Serve(s, r) /\ UNCHANGED <<eirAwal, schedule, proposal, report, job>> /\ eirAwal[i] \in Rates
  BY DEF GenerateSchedule, Generate, IInv, Typed
<1>2. rows \subseteq ScheduleRow /\ \A row \in rows : row.seq \in 1 .. MaxRows /\ row.from = Nobody
  <2>1. 1 \in 1 .. MaxRows /\ 1 + Length[cf] - 1 <= MaxRows /\ Nobody \in Proposals \cup {Nobody}
    BY EirAssumption
  <2> QED BY <1>1, <2>1, BuiltRows
<1> HIDE DEF rows
<1>3. r.op = "generate" /\ r.inst = i /\ r.rows = rows
  OBVIOUS
<1> HIDE DEF r
<1> QED BY <1>1, <1>2, <1>3, ServeStep DEF ReqOK, GenerateOK, Freezes, Replaces

LEMMA CreateRequestStep ==
    ASSUME IInv, NEW s \in Sessions, NEW u \in Users, NEW i \in Instruments,
           NEW cf \in Cashflows \cup {NoCf},
           \/ cf \in Cashflows /\ ProposeAmendment(s, u, i, cf)
           \/ \E b \in BOOLEAN : DetectAmendment(s, u, i, cf, b)
    PROVE  IInv'
<1>1. PICK status \in {"DRAFT", "PENDING_REVIEW"} :
         Serve(s, [op |-> "create", row |-> Created(status, i, cf, u)])
  BY DEF ProposeAmendment, Propose, DetectAmendment, DetectFromDocument
<1>2. UNCHANGED <<eirAwal, schedule, proposal, report, job>>
  BY DEF ProposeAmendment, Propose, DetectAmendment, DetectFromDocument
<1>3. Created(status, i, cf, u) \in AmendmentProposal /\ Created(status, i, cf, u).status = status
  BY EirAssumption DEF Created, AmendmentProposal, Active
<1> DEFINE r == [op |-> "create", row |-> Created(status, i, cf, u)]
<1>4. r.op = "create" /\ r.row = Created(status, i, cf, u)
  OBVIOUS
<1>5. Serve(s, r)
  BY <1>1
<1> HIDE DEF r
<1> QED BY <1>2, <1>3, <1>4, <1>5, ServeStep DEF ReqOK, CreateOK, Freezes, Replaces

LEMMA PatchStep ==
    ASSUME IInv, NEW s \in Sessions, NEW u \in Users, NEW p \in Proposals, NEW cf \in Cashflows,
           PatchCashflows(s, u, p, cf)
    PROVE  IInv'
<1> DEFINE r == [op |-> "cashflows", p |-> p, cf |-> cf]
<1>1. Serve(s, r) /\ UNCHANGED <<eirAwal, schedule, proposal, report, job>>
      /\ proposal[p].status = "DRAFT"
  BY DEF PatchCashflows, UpdateCashflows, MayUpdateCashflows
<1>2. Exists(p) /\ Loose(p)
  BY <1>1 DEF Exists, Absent, Loose
<1>3. r.op = "cashflows" /\ r.p = p /\ r.cf = cf
  OBVIOUS
<1> HIDE DEF r
<1> QED BY <1>1, <1>2, <1>3, ServeStep DEF ReqOK, CashflowsOK, Freezes, Replaces

LEMMA CancelStep ==
    ASSUME IInv, NEW s \in Sessions, NEW u \in Users, NEW p \in Proposals, CancelAmendment(s, u, p)
    PROVE  IInv'
<1> DEFINE r == [op |-> "cancel", p |-> p]
<1>1. Serve(s, r) /\ UNCHANGED <<eirAwal, schedule, proposal, report, job>> /\ Exists(p)
  BY DEF CancelAmendment, MayCancel, Exists, Absent
<1>2. r.op = "cancel" /\ r.p = p
  OBVIOUS
<1> HIDE DEF r
<1> QED BY <1>1, <1>2, ServeStep DEF ReqOK, CancelOK, Freezes, Replaces

LEMMA ReviewStep ==
    ASSUME IInv, NEW s \in Sessions, NEW u \in Users, NEW p \in Proposals, ReviewAmendment(s, u, p)
    PROVE  IInv'
<1> DEFINE a == [proposal[p] EXCEPT !.status = "PENDING_APPROVAL", !.reviewer = u]
           r == [op |-> "update", p |-> p, row |-> a]
<1>1. Serve(s, r) /\ UNCHANGED <<eirAwal, schedule, proposal, report, job>>
      /\ proposal[p].status = "PENDING_REVIEW"
  BY DEF ReviewAmendment, Review
<1>2. proposal[p] \in AmendmentProposal /\ Exists(p) /\ Frozen(p)
  BY <1>1 DEF IInv, Typed, Exists, Absent, Frozen
<1>3. a \in AmendmentProposal /\ a.status = "PENDING_APPROVAL" /\ a.inst = proposal[p].inst
  BY <1>2 DEF AmendmentProposal, Active
<1> HIDE DEF a
<1>4. r.op = "update" /\ r.p = p /\ r.row = a
  OBVIOUS
<1> HIDE DEF r
<1> QED BY <1>1, <1>2, <1>3, <1>4, ServeStep DEF ReqOK, UpdateOK, Freezes, Replaces

LEMMA RejectStep ==
    ASSUME IInv, NEW s \in Sessions, NEW u \in Users, NEW p \in Proposals, RejectAmendment(s, u, p)
    PROVE  IInv'
<1> DEFINE a == [proposal[p] EXCEPT !.status = "REJECTED"]
           r == [op |-> "update", p |-> p, row |-> a]
<1>1. Serve(s, r) /\ UNCHANGED <<eirAwal, schedule, proposal, report, job>>
      /\ proposal[p].status \in Active
  BY DEF RejectAmendment, Reject
<1>2. proposal[p] \in AmendmentProposal /\ Exists(p)
  BY <1>1 DEF IInv, Typed, Exists, Absent, Active
<1>3. a \in AmendmentProposal /\ a.status = "REJECTED" /\ a.inst = proposal[p].inst
  BY <1>2 DEF AmendmentProposal, Terminal
<1> HIDE DEF a
<1>4. r.op = "update" /\ r.p = p /\ r.row = a
  OBVIOUS
<1> HIDE DEF r
<1> QED BY <1>1, <1>2, <1>3, <1>4, ServeStep DEF ReqOK, UpdateOK, Freezes, Replaces

LEMMA ApproveStep ==
    ASSUME IInv, NEW s \in Sessions, NEW u \in Users, NEW p \in Proposals, NEW b \in BOOLEAN,
           ApproveAmendment(s, u, p, b)
    PROVE  IInv'
<1> DEFINE old == proposal[p]
           rate == Solved(old.cf)
           first == GetMaxPeriodeSeq(old.inst) + 1
           a == [old EXCEPT !.status = "APPROVED", !.approver = u, !.eirBaru = rate]
           rows == BuildScheduleRows(old.cf, rate, first, p)
           r == [op |-> "approve", p |-> p, first |-> first, rows |-> rows, row |-> a]
<1>1. Serve(s, r) /\ UNCHANGED <<eirAwal, schedule, proposal, report, job>>
      /\ old.status = "PENDING_APPROVAL" /\ rate # NoRate /\ first + Length[old.cf] - 1 <= MaxRows
  BY DEF ApproveAmendment, Approve
<1>2. old \in AmendmentProposal /\ Exists(p) /\ Frozen(p)
  BY <1>1 DEF IInv, Typed, Exists, Absent, Frozen
<1>3. old.cf \in Cashflows /\ rate = Solve[old.cf] /\ rate \in Rates
  BY <1>1, EirAssumption DEF Solved
<1>4. first \in 1 .. MaxRows
  <2>1. GetMaxPeriodeSeq(old.inst) \in Nat
    BY <1>2, NextNumber DEF AmendmentProposal, IInv
  <2>2. Length[old.cf] \in 1 .. MaxRows /\ MaxRows \in Nat
    BY <1>3, EirAssumption
  <2> HIDE DEF a, rows, r, rate, old
  <2> QED BY <1>1, <2>1, <2>2
<1> HIDE DEF rows, first, rate
<1>5. a \in AmendmentProposal /\ a.status = "APPROVED" /\ a.inst = old.inst /\ a.cf = old.cf
      /\ a.eirBaru = rate
  BY <1>2, <1>3 DEF AmendmentProposal, Terminal
<1> HIDE DEF a, old
<1>6. r.op = "approve" /\ r.p = p /\ r.first = first /\ r.rows = rows /\ r.row = a
  OBVIOUS
<1> HIDE DEF r
<1>7. ApproveOK(r)
  BY <1>1, <1>2, <1>3, <1>4, <1>5, <1>6 DEF ApproveOK, rows, old
<1> QED BY <1>1, <1>2, <1>6, <1>7, ServeStep DEF ReqOK, Freezes, Replaces

-----------------------------------------------------------------------------
(* The facts of the requests in flight survive a transaction that keeps the *)
(* proposals' instruments and the cash flows someone approves.              *)
LEMMA RequestsKept ==
    ASSUME IInv, DOMAIN req' = Sessions,
           \A s \in Sessions : req'[s] = req[s] \/ req'[s] = Idle,
           \A p \in Proposals : proposal[p] # Absent =>
               proposal'[p] # Absent /\ proposal'[p].inst = proposal[p].inst,
           \A s \in Sessions : ApproveOK(req[s]) => proposal'[req[s].p].cf = proposal[req[s].p].cf
    PROVE  \A s \in Sessions : ReqOK(req[s])'
<1>1. ASSUME NEW s \in Sessions, req'[s] = req[s] PROVE ReqOK(req[s])'
  <2>1. ReqOK(req[s])
    BY DEF IInv
  <2>2. CASE ApproveOK(req[s])
    BY <1>1, <2>2 DEF ReqOK, ApproveOK, Exists
  <2>3. CASE ~ApproveOK(req[s])
    BY <1>1, <2>1, <2>3 DEF ReqOK, ComputeOK, GenerateOK, CreateOK, CashflowsOK, CancelOK, UpdateOK, Exists
  <2> QED BY <2>2, <2>3
<1> QED BY <1>1 DEF ReqOK

(* A transaction that ends request s.                                       *)
LEMMA Finishes ==
    ASSUME IInv, NEW s \in Sessions, Done(s)
    PROVE  /\ DOMAIN req' = Sessions /\ req'[s] = Idle
           /\ \A o \in Sessions : req'[o] = req[o] \/ req'[o] = Idle
           /\ \A p \in Proposals, o \in Sessions :
                 (Freezes(req'[o], p) => Freezes(req[o], p)) /\ (Replaces(req'[o], p) => Replaces(req[o], p))
BY DEF Done, IInv, Typed, Freezes, Replaces, Idle

LEMMA ComputeCommitStep ==
    ASSUME IInv, NEW s \in Sessions, ComputeCommit(s)
    PROVE  IInv'
<1>1. Done(s) /\ UNCHANGED <<schedule, proposal, report, job>> /\ ComputeOK(req[s])
  BY DEF ComputeCommit, IInv, ReqOK, Idle, ComputeOK, GenerateOK, CreateOK, CashflowsOK, CancelOK, UpdateOK, ApproveOK
<1>2. eirAwal' \in [Instruments -> Rates \cup {NoRate}]
  BY <1>1 DEF ComputeCommit, UpdateEIRAwal, IInv, Typed, ComputeOK
<1>3. \A o \in Sessions : ReqOK(req[o])'
  BY <1>1, Finishes, RequestsKept
<1>4. Separate'
  BY <1>1, Finishes DEF IInv, Separate, Loose, Frozen
<1>5. Typed'
  BY <1>1, <1>2, Finishes DEF IInv, Typed
<1> QED BY <1>1, <1>3, <1>4, <1>5 DEF IInv, JobOK, RowsOK, ApprovedOK

LEMMA GenerateCommitStep ==
    ASSUME IInv, NEW s \in Sessions, GenerateCommit(s)
    PROVE  IInv'
<1> DEFINE i == req[s].inst
<1>1. Done(s) /\ UNCHANGED <<eirAwal, proposal, report, job>> /\ GenerateOK(req[s])
  BY DEF GenerateCommit, IInv, ReqOK, Idle, ComputeOK, GenerateOK, CreateOK, CashflowsOK, CancelOK, UpdateOK, ApproveOK
<1>2. /\ i \in Instruments /\ DOMAIN schedule' = Instruments
      /\ \A j \in Instruments : schedule'[j] = schedule[j]
                                \/ (j = i /\ schedule'[j] = schedule[j] \cup req[s].rows)
  BY <1>1 DEF GenerateCommit, InsertBatch, GenerateOK, IInv, Typed
<1>3. \A j \in Instruments : \A row \in schedule'[j] :
         row \in schedule[j] \/ (row \in ScheduleRow /\ row.seq \in 1 .. MaxRows /\ row.from \notin Proposals)
  BY <1>1, <1>2, EirAssumption DEF GenerateOK
<1>4. \A j \in Instruments : schedule[j] \subseteq schedule'[j]
  BY <1>2
<1>5. \A o \in Sessions : ReqOK(req[o])'
  BY <1>1, Finishes, RequestsKept
<1>6. Separate'
  BY <1>1, <1>3, Finishes DEF IInv, Separate, Loose, Frozen
<1>7. Typed'
  <2>1. \A j \in Instruments : schedule'[j] \subseteq ScheduleRow /\ \A row \in schedule'[j] : row.seq \in 1 .. MaxRows
    BY <1>3 DEF IInv, Typed
  <2> QED BY <1>1, <1>2, <2>1, Finishes DEF IInv, Typed
<1>8. RowsOK'
  BY <1>1, <1>3 DEF IInv, RowsOK
<1>9. \A p \in Proposals : ApprovedOK(p)'
  <2> SUFFICES ASSUME NEW p \in Proposals PROVE ApprovedOK(p)'
    OBVIOUS
  <2>1. proposal'[p] = proposal[p] /\ ApprovedOK(p)
    BY <1>1 DEF IInv
  <2>2. proposal[p].status = "APPROVED" => proposal[p].inst \in Instruments
    BY DEF IInv, Typed, Absent, AmendmentProposal
  <2> QED BY <1>4, <2>1, <2>2 DEF ApprovedOK
<1> QED BY <1>1, <1>5, <1>6, <1>7, <1>8, <1>9 DEF IInv, JobOK

-----------------------------------------------------------------------------
(* A proposal is new, or its status and people change, or its cash flows.   *)
LEMMA CreatedOK ==
    ASSUME IInv, NEW p \in Proposals, NEW a \in AmendmentProposal,
           proposal[p] = Absent, a.status \in {"DRAFT", "PENDING_REVIEW"},
           proposal' = [proposal EXCEPT ![p] = a], schedule' = schedule, DOMAIN req' = Sessions,
           \A o \in Sessions : req'[o] = req[o] \/ req'[o] = Idle
    PROVE  /\ \A q \in Proposals : proposal'[q] = Absent \/ proposal'[q] \in AmendmentProposal
           /\ DOMAIN proposal' = Proposals
           /\ Separate' /\ RowsOK' /\ \A q \in Proposals : ApprovedOK(q)'
           /\ \A o \in Sessions : ReqOK(req[o])'
<1>1. /\ DOMAIN proposal' = Proposals /\ proposal'[p] = a
      /\ \A q \in Proposals \ {p} : proposal'[q] = proposal[q]
  BY DEF IInv, Typed
<1>2. a # Absent
  BY DEF Absent, AmendmentProposal, Active, Terminal
<1>3. \A o \in Sessions : ApproveOK(req[o]) => req[o].p # p
  BY DEF ApproveOK, Exists
<1>4. \A o \in Sessions : ReqOK(req[o])'
  BY <1>1, <1>3, RequestsKept DEF ApproveOK, Exists
<1>5. Loose(p) /\ ~Frozen(p) /\ \A o \in Sessions : ~Replaces(req[o], p)
  <2>1. Loose(p)
    BY DEF Loose, Absent
  <2>2. \A o \in Sessions : ~Replaces(req[o], p)
    BY DEF IInv, ReqOK, Idle, ComputeOK, GenerateOK, CreateOK, CashflowsOK, CancelOK, UpdateOK, ApproveOK,
           Exists, Replaces
  <2> QED BY <2>1, <2>2 DEF IInv, Separate
<1>6. \A q \in Proposals, o \in Sessions :
         (Freezes(req'[o], q) => Freezes(req[o], q)) /\ (Replaces(req'[o], q) => Replaces(req[o], q))
  BY DEF Freezes, Replaces, Idle
<1>7. Separate'
  <2>1. ~(Loose(p) /\ Frozen(p))'
    BY <1>1, <1>5, <1>6 DEF Loose, Frozen
  <2>2. ASSUME NEW q \in Proposals \ {p} PROVE ~(Loose(q) /\ Frozen(q))'
    BY <1>1, <1>6 DEF IInv, Separate, Loose, Frozen
  <2> QED BY <2>1, <2>2 DEF Separate
<1>8. RowsOK'
  BY <1>1, <1>5 DEF IInv, RowsOK, Frozen
<1>9. \A q \in Proposals : ApprovedOK(q)'
  BY <1>1 DEF IInv, ApprovedOK
<1> QED BY <1>1, <1>4, <1>7, <1>8, <1>9 DEF IInv, Typed

LEMMA RewrittenOK ==
    ASSUME IInv, NEW p \in Proposals, NEW a \in AmendmentProposal,
           Exists(p), a.inst = proposal[p].inst, a.cf = proposal[p].cf,
           a.status \in {"PENDING_APPROVAL", "REJECTED", "CANCELLED"},
           a.status = "PENDING_APPROVAL" => Frozen(p),
           proposal' = [proposal EXCEPT ![p] = a], schedule' = schedule, DOMAIN req' = Sessions,
           \A o \in Sessions : req'[o] = req[o] \/ req'[o] = Idle
    PROVE  /\ \A q \in Proposals : proposal'[q] = Absent \/ proposal'[q] \in AmendmentProposal
           /\ DOMAIN proposal' = Proposals
           /\ Separate' /\ RowsOK' /\ \A q \in Proposals : ApprovedOK(q)'
           /\ \A o \in Sessions : ReqOK(req[o])'
<1>1. /\ DOMAIN proposal' = Proposals /\ proposal'[p] = a
      /\ \A q \in Proposals \ {p} : proposal'[q] = proposal[q]
  BY DEF IInv, Typed
<1>2. a # Absent
  BY DEF Absent, AmendmentProposal, Active, Terminal
<1>3. \A q \in Proposals : proposal'[q].cf = proposal[q].cf
  BY <1>1
<1>4. \A o \in Sessions : ReqOK(req[o])'
  BY <1>1, <1>2, <1>3, RequestsKept DEF ApproveOK, Exists
<1>6. \A q \in Proposals, o \in Sessions :
         (Freezes(req'[o], q) => Freezes(req[o], q)) /\ (Replaces(req'[o], q) => Replaces(req[o], q))
  BY DEF Freezes, Replaces, Idle
<1>7. Separate'
  <2>1. (Loose(p)' => Loose(p)) /\ (Frozen(p)' => Frozen(p))
    BY <1>1, <1>6 DEF Loose, Frozen
  <2>2. ASSUME NEW q \in Proposals \ {p} PROVE ~(Loose(q) /\ Frozen(q))'
    BY <1>1, <1>6 DEF IInv, Separate, Loose, Frozen
  <2> QED BY <2>1, <2>2 DEF IInv, Separate
<1>8. RowsOK'
  BY <1>1, <1>2, <1>3 DEF IInv, RowsOK
<1>9. \A q \in Proposals : ApprovedOK(q)'
  BY <1>1 DEF IInv, ApprovedOK
<1> QED BY <1>1, <1>4, <1>7, <1>8, <1>9 DEF IInv, Typed

LEMMA CreateCommitStep ==
    ASSUME IInv, NEW s \in Sessions, NEW p \in Proposals, CreateCommit(s, p)
    PROVE  IInv'
<1>1. /\ Done(s) /\ UNCHANGED <<eirAwal, schedule, report, job>> /\ CreateOK(req[s])
      /\ proposal[p] = Absent /\ proposal' = [proposal EXCEPT ![p] = req[s].row]
  BY DEF CreateCommit, IInv, ReqOK, Idle, ComputeOK, GenerateOK, CreateOK, CashflowsOK, CancelOK, UpdateOK, ApproveOK
<1>2. /\ \A q \in Proposals : proposal'[q] = Absent \/ proposal'[q] \in AmendmentProposal
      /\ DOMAIN proposal' = Proposals
      /\ Separate' /\ RowsOK' /\ \A q \in Proposals : ApprovedOK(q)'
      /\ \A o \in Sessions : ReqOK(req[o])'
  BY <1>1, Finishes, CreatedOK DEF CreateOK
<1> QED BY <1>1, <1>2, Finishes DEF IInv, Typed, JobOK

LEMMA CancelCommitStep ==
    ASSUME IInv, NEW s \in Sessions, CancelCommit(s)
    PROVE  IInv'
<1> DEFINE p == req[s].p
           a == [proposal[p] EXCEPT !.status = "CANCELLED"]
<1>1. Done(s) /\ UNCHANGED <<eirAwal, schedule, report, job>> /\ Exists(p)
  BY DEF CancelCommit, IInv, ReqOK, Idle, ComputeOK, GenerateOK, CreateOK, CashflowsOK, CancelOK, UpdateOK, ApproveOK
<1>2. proposal[p] \in AmendmentProposal
  BY <1>1 DEF IInv, Typed, Exists
<1>3. a \in AmendmentProposal /\ a.inst = proposal[p].inst /\ a.cf = proposal[p].cf /\ a.status = "CANCELLED"
  BY <1>2 DEF AmendmentProposal, Terminal
<1>4. proposal' = [proposal EXCEPT ![p] = a]
  BY DEF CancelCommit, Cancelled
<1> HIDE DEF a
<1>5. p \in Proposals
  BY <1>1 DEF Exists
<1> HIDE DEF p
<1>6. /\ \A q \in Proposals : proposal'[q] = Absent \/ proposal'[q] \in AmendmentProposal
      /\ DOMAIN proposal' = Proposals
      /\ Separate' /\ RowsOK' /\ \A q \in Proposals : ApprovedOK(q)'
      /\ \A o \in Sessions : ReqOK(req[o])'
  BY <1>1, <1>3, <1>4, <1>5, Finishes, RewrittenOK
<1> QED BY <1>1, <1>6, Finishes DEF IInv, Typed, JobOK

LEMMA UpdateCommitStep ==
    ASSUME IInv, NEW s \in Sessions, UpdateCommit(s)
    PROVE  IInv'
<1> DEFINE p == req[s].p
           a == [req[s].row EXCEPT !.cf = proposal[p].cf]
<1>1. /\ Done(s) /\ UNCHANGED <<eirAwal, schedule, report, job>> /\ UpdateOK(req[s]) /\ p \in Proposals
      /\ proposal' = proposal \/ proposal' = [proposal EXCEPT ![p] = a]
  BY DEF UpdateCommit, Written, Exists,
         IInv, ReqOK, Idle, ComputeOK, GenerateOK, CreateOK, CashflowsOK, CancelOK, UpdateOK, ApproveOK
<1>2. proposal[p] \in AmendmentProposal
  BY <1>1 DEF IInv, Typed, UpdateOK, Exists
<1>3. /\ a \in AmendmentProposal /\ a.inst = proposal[p].inst /\ a.cf = proposal[p].cf
      /\ a.status = req[s].row.status
  BY <1>1, <1>2 DEF AmendmentProposal, UpdateOK
<1>4. a.status = "PENDING_APPROVAL" => Frozen(p)
  BY <1>1, <1>3 DEF UpdateOK, Frozen, Freezes
<1>5. CASE proposal' = proposal
  <2>1. \A o \in Sessions : ReqOK(req[o])'
    BY <1>1, <1>5, Finishes, RequestsKept
  <2>2. Separate'
    BY <1>1, <1>5, Finishes DEF IInv, Separate, Loose, Frozen
  <2> QED BY <1>1, <1>5, <2>1, <2>2, Finishes DEF IInv, Typed, JobOK, RowsOK, ApprovedOK
<1>6. CASE proposal' = [proposal EXCEPT ![p] = a]
  <2> HIDE DEF a
  <2>1. Exists(p) /\ a.status \in {"PENDING_APPROVAL", "REJECTED", "CANCELLED"}
    BY <1>1, <1>3 DEF UpdateOK
  <2> HIDE DEF p
  <2>2. /\ \A q \in Proposals : proposal'[q] = Absent \/ proposal'[q] \in AmendmentProposal
        /\ DOMAIN proposal' = Proposals
        /\ Separate' /\ RowsOK' /\ \A q \in Proposals : ApprovedOK(q)'
        /\ \A o \in Sessions : ReqOK(req[o])'
    BY <1>1, <1>3, <1>4, <1>6, <2>1, Finishes, RewrittenOK
  <2> QED BY <1>1, <2>2, Finishes DEF IInv, Typed, JobOK
<1> QED BY <1>1, <1>5, <1>6

(* The cash flows of a loose proposal: nothing was computed from them.      *)
LEMMA CashflowsCommitStep ==
    ASSUME IInv, NEW s \in Sessions, CashflowsCommit(s)
    PROVE  IInv'
<1> DEFINE p == req[s].p
           a == [proposal[p] EXCEPT !.cf = req[s].cf]
<1>1. /\ Done(s) /\ UNCHANGED <<eirAwal, schedule, report, job>> /\ CashflowsOK(req[s])
      /\ p \in Proposals /\ proposal[p] # Absent /\ proposal' = [proposal EXCEPT ![p] = a]
  BY DEF CashflowsCommit, Exists,
         IInv, ReqOK, Idle, ComputeOK, GenerateOK, CreateOK, CashflowsOK, CancelOK, UpdateOK, ApproveOK
<1>2. proposal[p] \in AmendmentProposal
  BY <1>1 DEF IInv, Typed
<1>3. a \in AmendmentProposal /\ a.inst = proposal[p].inst /\ a.status = proposal[p].status
  BY <1>1, <1>2 DEF AmendmentProposal, CashflowsOK
<1>4. ~Frozen(p)
  BY <1>1 DEF IInv, Separate, Loose, CashflowsOK, Replaces
<1>5. a # Absent
  BY <1>3 DEF Absent, AmendmentProposal, Active, Terminal
<1> HIDE DEF a
<1>6. /\ DOMAIN proposal' = Proposals /\ proposal'[p] = a
      /\ \A q \in Proposals \ {p} : proposal'[q] = proposal[q]
  BY <1>1 DEF IInv, Typed
<1> HIDE DEF p
<1>7. \A o \in Sessions : ApproveOK(req[o]) => req[o].p # p /\ req[o].p \in Proposals
  BY <1>4 DEF Frozen, Freezes, ApproveOK, Exists
<1>8. \A o \in Sessions : ReqOK(req[o])'
  BY <1>1, <1>3, <1>5, <1>6, <1>7, Finishes, RequestsKept
<1>9. Separate'
  <2>1. \A q \in Proposals : (Loose(q)' => Loose(q)) /\ (Frozen(q)' => Frozen(q))
    BY <1>1, <1>3, <1>6, Finishes DEF Loose, Frozen
  <2> QED BY <2>1 DEF IInv, Separate
<1>10. RowsOK'
  BY <1>1, <1>4, <1>6 DEF IInv, RowsOK, Frozen
<1>11. \A q \in Proposals : ApprovedOK(q)'
  BY <1>1, <1>3, <1>4, <1>6 DEF IInv, ApprovedOK, Frozen
<1> QED BY <1>1, <1>3, <1>6, <1>8, <1>9, <1>10, <1>11, Finishes DEF IInv, Typed, JobOK

-----------------------------------------------------------------------------
(* Marking changes nothing else in a row, and leaves none active.           *)
LEMMA Marked ==
    ASSUME NEW rows, rows \subseteq ScheduleRow, NEW first \in 1 .. MaxRows
    PROVE  /\ \A row \in MarkSuperseded(rows, first) :
                 /\ row \in ScheduleRow /\ row.mark # 0
                 /\ \E old \in rows : row.seq = old.seq /\ row.rate = old.rate /\ row.from = old.from
           /\ \A old \in rows : \E row \in MarkSuperseded(rows, first) :
                 row.seq = old.seq /\ row.from = old.from
<1> DEFINE M(old) == IF old.mark = 0 THEN [old EXCEPT !.mark = first] ELSE old
<1>1. first \in Nat /\ first # 0
  BY EirAssumption
<1>2. \A old \in rows : /\ M(old) \in ScheduleRow /\ M(old).mark # 0 /\ M(old).seq = old.seq
                        /\ M(old).rate = old.rate /\ M(old).from = old.from
  <2> SUFFICES ASSUME NEW old \in rows
               PROVE  /\ M(old) \in ScheduleRow /\ M(old).mark # 0 /\ M(old).seq = old.seq
                      /\ M(old).rate = old.rate /\ M(old).from = old.from
    OBVIOUS
  <2>1. old \in ScheduleRow
    OBVIOUS
  <2>2. [old EXCEPT !.mark = first] \in ScheduleRow /\ [old EXCEPT !.mark = first].mark = first
        /\ [old EXCEPT !.mark = first].seq = old.seq /\ [old EXCEPT !.mark = first].rate = old.rate
        /\ [old EXCEPT !.mark = first].from = old.from
    BY <1>1, <2>1 DEF ScheduleRow
  <2> QED BY <1>1, <2>1, <2>2
<1>3. MarkSuperseded(rows, first) = {M(old) : old \in rows}
  BY DEF MarkSuperseded
<1> HIDE DEF M
<1> QED BY <1>2, <1>3

(* What an approval that goes through writes.                               *)
LEMMA Approved ==
    ASSUME IInv, NEW s \in Sessions, ApproveOK(req[s]), ApproveCommit(s),
           ~ UNCHANGED <<schedule, eirAwal, proposal>>
    PROVE  LET r == req[s]
               i == r.row.inst
           IN /\ i \in Instruments /\ r.p \in Proposals
              /\ DOMAIN schedule' = Instruments
              /\ schedule'[i] = MarkSuperseded(schedule[i], r.first) \cup r.rows
              /\ \A j \in Instruments \ {i} : schedule'[j] = schedule[j]
              /\ DOMAIN proposal' = Proposals /\ proposal'[r.p] = r.row
              /\ \A q \in Proposals \ {r.p} : proposal'[q] = proposal[q]
              /\ eirAwal' \in [Instruments -> Rates \cup {NoRate}]
<1> DEFINE r == req[s]
           i == r.row.inst
<1>1. /\ i \in Instruments /\ r.p \in Proposals /\ r.row \in AmendmentProposal
      /\ r.row.eirBaru \in Rates /\ r.row.cf = proposal[r.p].cf
  BY DEF ApproveOK, AmendmentProposal, Exists
<1>2. /\ schedule' = [schedule EXCEPT ![i] = MarkSuperseded(schedule[i], r.first) \cup r.rows]
      /\ eirAwal' = [eirAwal EXCEPT ![i] = r.row.eirBaru]
      /\ proposal' = [proposal EXCEPT ![r.p] = [r.row EXCEPT !.cf = proposal[r.p].cf]]
  BY DEF ApproveCommit, Superseding, InsertBatch, UpdateEIRAwal, Written
<1>3. [r.row EXCEPT !.cf = proposal[r.p].cf] = r.row
  BY <1>1 DEF AmendmentProposal
<1>4. eirAwal' \in [Instruments -> Rates \cup {NoRate}]
  BY <1>1, <1>2 DEF IInv, Typed
<1> HIDE DEF r
<1>5. proposal' = [proposal EXCEPT ![r.p] = r.row]
  BY <1>2, <1>3
<1>6. DOMAIN proposal' = Proposals /\ proposal'[r.p] = r.row
      /\ \A q \in Proposals \ {r.p} : proposal'[q] = proposal[q]
  BY <1>1, <1>5 DEF IInv, Typed
<1>7. DOMAIN schedule' = Instruments
      /\ schedule'[i] = MarkSuperseded(schedule[i], r.first) \cup r.rows
      /\ \A j \in Instruments \ {i} : schedule'[j] = schedule[j]
  BY <1>1, <1>2 DEF IInv, Typed
<1> QED BY <1>1, <1>4, <1>6, <1>7 DEF r

LEMMA ApproveCommitStep ==
    ASSUME IInv, NEW s \in Sessions, ApproveCommit(s)
    PROVE  IInv'
<1> DEFINE r == req[s]
           i == r.row.inst
<1>1. Done(s) /\ UNCHANGED <<report, job>> /\ ApproveOK(r)
  BY DEF ApproveCommit, IInv, ReqOK, Idle, ComputeOK, GenerateOK, CreateOK, CashflowsOK, CancelOK, UpdateOK, ApproveOK
<1>2. CASE UNCHANGED <<schedule, eirAwal, proposal>>
  <2>1. \A o \in Sessions : ReqOK(req[o])'
    BY <1>1, <1>2, Finishes, RequestsKept
  <2>2. Separate'
    BY <1>1, <1>2, Finishes DEF IInv, Separate, Loose, Frozen
  <2> QED BY <1>1, <1>2, <2>1, <2>2, Finishes DEF IInv, Typed, JobOK, RowsOK, ApprovedOK
<1>3. CASE ~ UNCHANGED <<schedule, eirAwal, proposal>>
  <2>1. /\ i \in Instruments /\ r.p \in Proposals /\ DOMAIN schedule' = Instruments
        /\ schedule'[i] = MarkSuperseded(schedule[i], r.first) \cup r.rows
        /\ \A j \in Instruments \ {i} : schedule'[j] = schedule[j]
        /\ DOMAIN proposal' = Proposals /\ proposal'[r.p] = r.row
        /\ \A q \in Proposals \ {r.p} : proposal'[q] = proposal[q]
        /\ eirAwal' \in [Instruments -> Rates \cup {NoRate}]
    BY <1>1, <1>3, Approved
  <2>2. /\ proposal[r.p] # Absent /\ r.row \in AmendmentProposal /\ r.row.status = "APPROVED"
        /\ r.row.inst = proposal[r.p].inst /\ r.row.cf = proposal[r.p].cf /\ r.row.cf \in Cashflows
        /\ r.row.eirBaru = Solve[r.row.cf] /\ r.row.eirBaru \in Rates /\ r.first \in 1 .. MaxRows
        /\ r.first + Length[r.row.cf] - 1 <= MaxRows
        /\ r.rows = BuildScheduleRows(r.row.cf, r.row.eirBaru, r.first, r.p)
    BY <1>1 DEF ApproveOK, Exists
  <2>3. r.row # Absent
    BY <2>2 DEF Absent, AmendmentProposal
  <2>4. Frozen(r.p) /\ ~Loose(r.p)
    BY <1>1, <2>1 DEF Frozen, Freezes, ApproveOK, IInv, Separate
  <2>5. /\ r.rows \subseteq ScheduleRow
        /\ \A row \in r.rows : row.seq \in 1 .. MaxRows /\ row.from = r.p /\ row.rate = r.row.eirBaru
        /\ r.first .. r.first + Length[r.row.cf] - 1 = {row.seq : row \in r.rows}
    <3> HIDE DEF r, i
    <3>1. r.p \in Proposals \cup {Nobody}
      BY <2>1
    <3> QED BY <2>2, <3>1, BuiltRows
  <2>6. /\ schedule[i] \subseteq ScheduleRow
        /\ \A row \in MarkSuperseded(schedule[i], r.first) : row \in ScheduleRow
              /\ \E old \in schedule[i] : row.seq = old.seq /\ row.rate = old.rate /\ row.from = old.from
        /\ \A old \in schedule[i] : \E row \in MarkSuperseded(schedule[i], r.first) :
              row.seq = old.seq /\ row.from = old.from
    BY <2>1, <2>2, Marked DEF IInv, Typed
  <2>7. \A o \in Sessions : ReqOK(req[o])'
    <3>1. \A q \in Proposals : proposal[q] # Absent =>
             proposal'[q] # Absent /\ proposal'[q].inst = proposal[q].inst /\ proposal'[q].cf = proposal[q].cf
      BY <2>1, <2>2, <2>3
    <3> QED BY <1>1, <3>1, Finishes, RequestsKept DEF ApproveOK, Exists
  <2> HIDE DEF r, i
  <2>8. Separate'
    <3>1. ASSUME NEW q \in Proposals PROVE (Loose(q)' => Loose(q)) /\ (Frozen(q)' => Frozen(q))
      <4>1. Loose(q)' => Loose(q)
        BY <1>1, <2>1, <2>2, Finishes DEF Loose
      <4>2. CASE q = r.p
        BY <2>4, <4>1, <4>2
      <4>3. CASE q # r.p
        <5>1. \A j \in Instruments : \A row \in schedule'[j] : row.from = q =>
                 \E old \in schedule[j] : old.from = q
          BY <2>1, <2>5, <2>6, <4>3
        <5> QED BY <1>1, <2>1, <4>1, <4>3, <5>1, Finishes DEF Frozen
      <4> QED BY <4>2, <4>3
    <3> QED BY <3>1 DEF IInv, Separate
  <2>9. Typed'
    <3>1. \A j \in Instruments : schedule'[j] \subseteq ScheduleRow /\ \A row \in schedule'[j] : row.seq \in 1 .. MaxRows
      BY <2>1, <2>5, <2>6 DEF IInv, Typed
    <3>2. \A q \in Proposals : proposal'[q] = Absent \/ proposal'[q] \in AmendmentProposal
      BY <2>1, <2>2 DEF IInv, Typed
    <3> QED BY <1>1, <2>1, <3>1, <3>2, Finishes DEF IInv, Typed
  <2>10. RowsOK'
    <3> SUFFICES ASSUME NEW j \in Instruments, NEW row \in schedule'[j], row.from \in Proposals
                 PROVE  LET a == proposal'[row.from] IN
                        a # Absent /\ a.inst = j /\ a.cf \in Cashflows /\ row.rate = Solve[a.cf]
      BY DEF RowsOK
    <3>1. CASE j = i /\ row \in r.rows
      BY <2>1, <2>2, <2>3, <2>5, <3>1 DEF i
    <3>2. CASE ~(j = i /\ row \in r.rows)
      <4>1. PICK old \in schedule[j] : row.rate = old.rate /\ row.from = old.from
        BY <2>1, <2>6, <3>2
      <4>2. LET a == proposal[row.from] IN
            a # Absent /\ a.inst = j /\ a.cf \in Cashflows /\ row.rate = Solve[a.cf]
        BY <4>1 DEF IInv, RowsOK
      <4> QED BY <2>1, <2>2, <2>3, <4>2
    <3> QED BY <3>1, <3>2
  <2>11. ASSUME NEW q \in Proposals PROVE ApprovedOK(q)'
    <3>1. CASE q = r.p
      <4>1. {row.seq : row \in r.rows} \subseteq {row.seq : row \in {x \in schedule'[i] : x.from = r.p}}
        BY <2>1, <2>5
      <4> QED BY <2>1, <2>2, <2>5, <3>1, <4>1 DEF ApprovedOK, i
    <3>2. CASE q # r.p
      <4>1. proposal'[q] = proposal[q] /\ ApprovedOK(q)
        BY <2>1, <3>2 DEF IInv
      <4>2. proposal[q].status = "APPROVED" => proposal[q].inst \in Instruments
        BY DEF IInv, Typed, Absent, AmendmentProposal
      <4>3. \A j \in Instruments : {row.seq : row \in {x \in schedule[j] : x.from = q}}
                                   \subseteq {row.seq : row \in {x \in schedule'[j] : x.from = q}}
        BY <2>1, <2>6
      <4> QED BY <4>1, <4>2, <4>3 DEF ApprovedOK
    <3> QED BY <3>1, <3>2
  <2> QED BY <1>1, <2>7, <2>8, <2>9, <2>10, <2>11 DEF IInv, JobOK
<1> QED BY <1>2, <1>3

-----------------------------------------------------------------------------
(* Drift jobs: but for the draft they may open, they touch reports only.    *)
LEMMA JobOnly ==
    ASSUME IInv, NEW w \in Workers, NEW j, JobOK(j), job' = [job EXCEPT ![w] = j],
           UNCHANGED <<eirAwal, schedule, proposal, req>>,
           report' \in [Reports -> DriftReport]
    PROVE  IInv'
<1>1. DOMAIN job' = Workers /\ \A v \in Workers : job'[v] = job[v] \/ job'[v] = j
  BY DEF IInv, Typed
<1>2. \A v \in Workers : JobOK(job'[v])
  BY <1>1 DEF IInv
<1>3. \A v \in Workers : JobOK(job[v])'
  BY <1>2 DEF JobOK
<1>4. \A s \in Sessions : ReqOK(req[s])'
  BY RequestsKept DEF IInv, Typed
<1>5. Separate'
  BY DEF IInv, Separate, Loose, Frozen, Freezes, Replaces
<1> QED BY <1>1, <1>3, <1>4, <1>5 DEF IInv, Typed, RowsOK, ApprovedOK

LEMMA JobStep ==
    ASSUME IInv, NEW w \in Workers, JobNext(w)
    PROVE  IInv'
<1>0. report \in [Reports -> DriftReport] /\ JobOK(job[w])
  BY DEF IInv, Typed
<1>1. ASSUME NEW u \in Users \cup {Nobody}, DriftCheck(w, u) PROVE IInv'
  <2> DEFINE j == [phase |-> "create", actor |-> u]
  <2>1. j.phase = "create" /\ j.actor = u
    OBVIOUS
  <2>2. job' = [job EXCEPT ![w] = j] /\ UNCHANGED <<eirAwal, schedule, proposal, report, req>>
    BY <1>1 DEF DriftCheck
  <2> HIDE DEF j
  <2> QED BY <1>0, <2>1, <2>2, JobOnly DEF JobOK
<1>2. ASSUME NEW r \in Reports, DriftCreate(w, r) PROVE IInv'
  <2> DEFINE j == [phase |-> "scan", actor |-> job[w].actor, r |-> r, todo |-> ListActiveForBulk]
  <2>1. j.phase = "scan" /\ j.actor = job[w].actor /\ j.r = r
    OBVIOUS
  <2>2. job' = [job EXCEPT ![w] = j] /\ UNCHANGED <<eirAwal, schedule, proposal, req>>
        /\ report' \in [Reports -> DriftReport] /\ job[w].actor \in Users \cup {Nobody}
    BY <1>0, <1>2 DEF DriftCreate, DriftReport, JobOK, NoJob
  <2> HIDE DEF j
  <2> QED BY <2>1, <2>2, JobOnly DEF JobOK
<1>3. ASSUME NEW i \in Instruments, NEW high \in BOOLEAN, DriftInstrument(w, i, high) PROVE IInv'
  <2> DEFINE rest == [job[w] EXCEPT !.todo = @ \ {i}]
             next == [phase |-> "propose", actor |-> rest.actor, r |-> rest.r, todo |-> rest.todo, inst |-> i]
  <2>1. job[w].phase = "scan" /\ job[w].actor \in Users \cup {Nobody} /\ job[w].r \in Reports
    BY <1>0, <1>3 DEF DriftInstrument, JobOK, NoJob
  <2>2. rest.phase = job[w].phase /\ rest.actor = job[w].actor /\ rest.r = job[w].r
    OBVIOUS
  <2>3. next.phase = "propose" /\ next.actor = rest.actor /\ next.r = rest.r /\ next.inst = i
    OBVIOUS
  <2>4. /\ UNCHANGED <<eirAwal, schedule, proposal, report, req>>
        /\ job' = [job EXCEPT ![w] = next] \/ job' = [job EXCEPT ![w] = rest]
    BY <1>3 DEF DriftInstrument
  <2> HIDE DEF rest, next
  <2>5. JobOK(rest) /\ JobOK(next)
    BY <2>1, <2>2, <2>3 DEF JobOK
  <2> QED BY <1>0, <2>4, <2>5, JobOnly
<1>4. ASSUME NEW p \in Proposals, AutoProposal(w, p) PROVE IInv'
  <2> DEFINE a == Created("DRAFT", job[w].inst, NoCf, job[w].actor)
             j == [phase |-> "scan", actor |-> job[w].actor, r |-> job[w].r, todo |-> job[w].todo]
  <2>1. /\ job[w].actor \in Users \cup {Nobody} /\ job[w].r \in Reports /\ job[w].inst \in Instruments
        /\ proposal[p] = Absent /\ proposal' = [proposal EXCEPT ![p] = a]
        /\ job' = [job EXCEPT ![w] = j] /\ UNCHANGED <<eirAwal, schedule, report, req>>
    BY <1>0, <1>4 DEF AutoProposal, JobOK, NoJob
  <2>2. a \in AmendmentProposal /\ a.status = "DRAFT"
    BY <2>1, EirAssumption DEF Created, AmendmentProposal, Active
  <2>3. j.phase = "scan" /\ j.actor = job[w].actor /\ j.r = job[w].r
    OBVIOUS
  <2> HIDE DEF a, j
  <2>4. DOMAIN req' = Sessions /\ \A o \in Sessions : req'[o] = req[o] \/ req'[o] = Idle
    BY <2>1 DEF IInv, Typed
  <2>5. /\ \A q \in Proposals : proposal'[q] = Absent \/ proposal'[q] \in AmendmentProposal
        /\ DOMAIN proposal' = Proposals
        /\ Separate' /\ RowsOK' /\ \A q \in Proposals : ApprovedOK(q)'
        /\ \A o \in Sessions : ReqOK(req[o])'
    BY <2>1, <2>2, <2>4, CreatedOK
  <2>6. DOMAIN job' = Workers /\ \A v \in Workers : JobOK(job'[v])
    BY <2>1, <2>3 DEF IInv, Typed, JobOK
  <2>7. \A v \in Workers : JobOK(job[v])'
    BY <2>6 DEF JobOK
  <2> QED BY <2>1, <2>4, <2>5, <2>6, <2>7 DEF IInv, Typed
<1>5. ASSUME NEW stored \in BOOLEAN, DriftFinish(w, stored) PROVE IInv'
  <2>1. job' = [job EXCEPT ![w] = NoJob] /\ UNCHANGED <<eirAwal, schedule, proposal, req>>
        /\ report' \in [Reports -> DriftReport]
    BY <1>0, <1>5 DEF DriftFinish, DriftReport
  <2> QED BY <2>1, JobOnly DEF JobOK
<1>6. ASSUME DriftDies(w) PROVE IInv'
  BY <1>0, <1>6, JobOnly DEF DriftDies, JobOK
<1> QED BY <1>1, <1>2, <1>3, <1>4, <1>5, <1>6 DEF JobNext, HandleDriftTask, GenerateDriftReport

LEMMA RequestStep ==
    ASSUME IInv, NEW s \in Sessions, RequestNext(s)
    PROVE  IInv'
BY ComputeStep, GenerateStep, CreateRequestStep, PatchStep, CancelStep, ReviewStep, RejectStep, ApproveStep,
   CreateCommitStep, ComputeCommitStep, GenerateCommitStep, CashflowsCommitStep, CancelCommitStep,
   UpdateCommitStep, ApproveCommitStep DEF RequestNext

LEMMA Inductive == IInv /\ [EirNext]_eirVars => IInv'
<1> SUFFICES ASSUME IInv, [EirNext]_eirVars PROVE IInv'
  OBVIOUS
<1>1. CASE EirNext
  BY <1>1, RequestStep, JobStep DEF EirNext
<1>2. CASE UNCHANGED eirVars
  <2>1. UNCHANGED <<eirAwal, schedule, proposal, report, req, job>>
    BY <1>2 DEF eirVars
  <2>2. \A s \in Sessions : ReqOK(req[s])'
    BY <2>1, RequestsKept DEF IInv, Typed
  <2>3. Separate'
    BY <2>1 DEF IInv, Separate, Loose, Frozen, Freezes, Replaces
  <2> QED BY <2>1, <2>2, <2>3 DEF IInv, Typed, JobOK, RowsOK, ApprovedOK
<1> QED BY <1>1, <1>2

\* Rates, proposals and schedules agree however requests overlap.
THEOREM Invariance == EirSpec => []IInv
BY Initially, Inductive, PTL DEF EirSpec

-----------------------------------------------------------------------------
(* Rates, schedules, proposals and reports have their types.                *)
THEOREM TypeCorrect == EirSpec => []EirTypeOK
<1>1. IInv => EirTypeOK
  BY DEF IInv, Typed, EirTypeOK
<1> QED BY <1>1, Invariance, PTL

(* An approved rate is the rate of the cash flows it was approved with.     *)
THEOREM RateReviewed == EirSpec => []ApprovedRateReviewed
<1>1. IInv => ApprovedRateReviewed
  BY EirAssumption DEF IInv, ApprovedOK, ApprovedRateReviewed, Solved
<1> QED BY <1>1, Invariance, PTL

(* No amendment is approved without its rows in the schedule.               *)
THEOREM Applied == EirSpec => []ApprovalApplied
<1>1. ASSUME IInv, NEW p \in Proposals, proposal[p].status = "APPROVED"
      PROVE  LET mine == {row \in schedule[proposal[p].inst] : row.from = p} IN
             /\ mine # {} /\ \A row \in mine : row.rate = proposal[p].eirBaru
             /\ \E n \in 1 .. MaxRows :
                   n .. n + Length[proposal[p].cf] - 1 \subseteq {row.seq : row \in mine}
  <2> DEFINE a == proposal[p]
             mine == {row \in schedule[a.inst] : row.from = p}
  <2>1. /\ a.cf \in Cashflows /\ a.eirBaru = Solve[a.cf] /\ a.inst \in Instruments
        /\ \E n \in 1 .. MaxRows : n .. n + Length[a.cf] - 1 \subseteq {row.seq : row \in mine}
    BY <1>1 DEF IInv, ApprovedOK, Typed, Absent, AmendmentProposal
  <2>2. \A row \in mine : row.rate = a.eirBaru
    BY <2>1, <1>1 DEF IInv, RowsOK
  <2>3. mine # {}
    <3>1. PICK n \in 1 .. MaxRows : n .. n + Length[a.cf] - 1 \subseteq {row.seq : row \in mine}
      BY <2>1
    <3>2. Length[a.cf] \in Nat /\ Length[a.cf] >= 1 /\ n \in Nat
      BY <2>1, EirAssumption
    <3>3. n \in n .. n + Length[a.cf] - 1
      BY <3>2
    <3> HIDE DEF a
    <3> QED BY <3>1, <3>3
  <2> QED BY <2>1, <2>2, <2>3
<1>2. IInv => ApprovalApplied
  BY <1>1 DEF ApprovalApplied
<1> QED BY <1>2, Invariance, PTL

(* Only a commit of its approval approves a proposal.                       *)
LEMMA ApprovingStep ==
    ASSUME IInv, [EirNext]_eirVars, NEW p \in Proposals,
           proposal'[p].status = "APPROVED", proposal[p].status # "APPROVED"
    PROVE  {row.from : row \in {x \in schedule'[proposal'[p].inst] : x.mark = 0}} = {p}
<1>0. p \in Proposals /\ DOMAIN proposal = Proposals /\ \A s \in Sessions : ReqOK(req[s])
  BY DEF IInv, Typed
<1>1. PICK s \in Sessions : ApproveCommit(s)
  <2>1. \A s \in Sessions : ~CreateCommit(s, p)
    BY <1>0 DEF CreateCommit, ReqOK, Idle, ComputeOK, GenerateOK, CreateOK, CashflowsOK, CancelOK, UpdateOK, ApproveOK
  <2>2. ASSUME NEW s \in Sessions, NEW q \in Proposals, CreateCommit(s, q) PROVE FALSE
    BY <1>0, <2>1, <2>2 DEF CreateCommit
  <2>3. ASSUME NEW s \in Sessions, UpdateCommit(s) PROVE FALSE
    <3>1. UpdateOK(req[s])
      BY <1>0, <2>3 DEF UpdateCommit, ReqOK, Idle, ComputeOK, GenerateOK, CreateOK, CashflowsOK, CancelOK, UpdateOK, ApproveOK
    <3> DEFINE a == [req[s].row EXCEPT !.cf = proposal[req[s].p].cf]
    <3>2. a.status = req[s].row.status /\ req[s].row.status # "APPROVED"
      BY <3>1 DEF UpdateOK, AmendmentProposal
    <3>3. proposal' = proposal \/ proposal' = [proposal EXCEPT ![req[s].p] = a]
      BY <2>3 DEF UpdateCommit, Written
    <3> HIDE DEF a
    <3> QED BY <1>0, <3>2, <3>3
  <2>4. ASSUME NEW s \in Sessions, CancelCommit(s) PROVE FALSE
    <3>1. CancelOK(req[s])
      BY <1>0, <2>4 DEF CancelCommit, ReqOK, Idle, ComputeOK, GenerateOK, CreateOK, CashflowsOK, CancelOK, UpdateOK, ApproveOK
    <3> DEFINE q == req[s].p
               a == [proposal[q] EXCEPT !.status = "CANCELLED"]
    <3>2. proposal[q] \in AmendmentProposal /\ q \in Proposals
      BY <3>1 DEF CancelOK, Exists, IInv, Typed
    <3>3. a.status = "CANCELLED" /\ proposal' = [proposal EXCEPT ![q] = a]
      BY <2>4, <3>2 DEF CancelCommit, Cancelled, AmendmentProposal
    <3> HIDE DEF a, q
    <3> QED BY <1>0, <3>2, <3>3
  <2>5. ASSUME NEW s \in Sessions, CashflowsCommit(s) PROVE FALSE
    <3>1. CashflowsOK(req[s])
      BY <1>0, <2>5 DEF CashflowsCommit, ReqOK, Idle, ComputeOK, GenerateOK, CreateOK, CashflowsOK, CancelOK, UpdateOK, ApproveOK
    <3> DEFINE q == req[s].p
               a == [proposal[q] EXCEPT !.cf = req[s].cf]
    <3>2. proposal[q] \in AmendmentProposal /\ q \in Proposals
      BY <3>1 DEF CashflowsOK, Exists, IInv, Typed
    <3>3. a.status = proposal[q].status /\ proposal' = [proposal EXCEPT ![q] = a]
      BY <2>5, <3>2 DEF CashflowsCommit, AmendmentProposal
    <3> HIDE DEF a, q
    <3> QED BY <1>0, <3>2, <3>3
  <2>6. ASSUME NEW w \in Workers, NEW q \in Proposals, AutoProposal(w, q) PROVE FALSE
    <3>1. PICK a : a.status = "DRAFT" /\ proposal' = [proposal EXCEPT ![q] = a]
      BY <2>6 DEF AutoProposal, Created
    <3> QED BY <1>0, <3>1
  <2>7. ASSUME proposal' = proposal PROVE FALSE
    BY <2>7
  <2>8. CASE UNCHANGED eirVars
    BY <2>7, <2>8 DEF eirVars
  <2>9. ASSUME NEW w \in Workers, JobNext(w) PROVE FALSE
    <3>1. (\E q \in Proposals : AutoProposal(w, q)) \/ proposal' = proposal
      BY <2>9 DEF JobNext, HandleDriftTask, GenerateDriftReport, DriftCheck, DriftCreate,
                  DriftInstrument, DriftFinish, DriftDies
    <3> QED BY <2>6, <2>7, <3>1
  <2>10. ASSUME NEW s \in Sessions, RequestNext(s) PROVE ApproveCommit(s)
    <3>1. \/ ApproveCommit(s) \/ UpdateCommit(s) \/ CancelCommit(s) \/ CashflowsCommit(s)
          \/ (\E q \in Proposals : CreateCommit(s, q)) \/ proposal' = proposal
      BY <2>10 DEF RequestNext, ComputeEIR, Compute, GenerateSchedule, Generate, ProposeAmendment, Propose,
                   DetectAmendment, DetectFromDocument, PatchCashflows, UpdateCashflows, CancelAmendment,
                   ReviewAmendment, Review, RejectAmendment, Reject, ApproveAmendment, Approve,
                   ComputeCommit, GenerateCommit
    <3> QED BY <2>2, <2>3, <2>4, <2>5, <2>7, <3>1
  <2> QED BY <2>8, <2>9, <2>10 DEF EirNext
<1> DEFINE r == req[s]
           i == r.row.inst
<1>2. ApproveOK(r) /\ ~ UNCHANGED <<schedule, eirAwal, proposal>>
  BY <1>0, <1>1 DEF ApproveCommit, ReqOK, Idle, ComputeOK, GenerateOK, CreateOK, CashflowsOK, CancelOK, UpdateOK, ApproveOK
<1>3. /\ i \in Instruments /\ r.p \in Proposals
      /\ schedule'[i] = MarkSuperseded(schedule[i], r.first) \cup r.rows
      /\ proposal'[r.p] = r.row
      /\ \A q \in Proposals \ {r.p} : proposal'[q] = proposal[q]
  BY <1>1, <1>2, Approved
<1>4. r.p = p
  BY <1>3
<1>5. /\ \A row \in r.rows : row.mark = 0 /\ row.from = p
      /\ r.rows # {}
  <2>1. /\ r.row.cf \in Cashflows /\ r.row.eirBaru \in Rates /\ r.first \in 1 .. MaxRows
        /\ r.first + Length[r.row.cf] - 1 <= MaxRows
        /\ r.rows = BuildScheduleRows(r.row.cf, r.row.eirBaru, r.first, r.p)
    BY <1>2 DEF ApproveOK
  <2> HIDE DEF r
  <2>2. r.p \in Proposals \cup {Nobody}
    BY <1>3
  <2> QED BY <1>4, <2>1, <2>2, BuiltRows
<1>6. \A row \in MarkSuperseded(schedule[i], r.first) : row.mark # 0
  BY <1>2, <1>3, Marked DEF ApproveOK, IInv, Typed
<1> HIDE DEF r
<1> QED BY <1>3, <1>4, <1>5, <1>6

(* The step that approves an amendment leaves its rows alone active.        *)
THEOREM ScheduleAlone == EirSpec => NewScheduleAlone
<1>1. IInv /\ [EirNext]_eirVars =>
        [\A p \in Proposals :
           (proposal'[p].status = "APPROVED" /\ proposal[p].status # "APPROVED")
           => {row.from : row \in {x \in schedule'[proposal'[p].inst] : x.mark = 0}} = {p}]_eirVars
  BY ApprovingStep
<1> QED BY <1>1, Invariance, PTL DEF EirSpec, NewScheduleAlone
=============================================================================
