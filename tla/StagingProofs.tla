---------------------------- MODULE StagingProofs ----------------------------
(***************************************************************************)
(* What stages, cures and stage overrides keep for any number of           *)
(* instruments, signers, proposals, requests and days.                     *)
(*                                                                         *)
(* The argument: the history only grows, and what enters it for the worse  *)
(* bears the day it is written, which no closed month contains any more;   *)
(* signatures are added and replaced, never taken away.  So what a request *)
(* found before its transaction is still true in it, although the proposal *)
(* itself may be another one by then.                                      *)
(***************************************************************************)
EXTENDS Staging, TLAPS, FiniteSetTheorems, FunctionTheorems, WellFoundedInduction

-----------------------------------------------------------------------------
(* Three closed months ending with t, without a SICR row in any of them.    *)
Earned(i, t) ==
    \E P \in kSubset(3, closed) :
        /\ Max(P) = t
        /\ \A p \in P : ~\E row \in SicrRows(i) : row.tanggal \in p .. firstOfNextMonth(p) - 1

Known(id) == id \in Overrides /\ override[id] # NoOverride
HasRow(id) == \E row \in stageHistory : row.proposal = id

MoveOK(m) == /\ m[1] \in Stages /\ m[2] \in {2, 3}
             /\ m[3] \in TriggerType \ {"MANUAL_OVERRIDE", "CURE_3_PERIODE_BULANAN"}

(* What a request found before its transaction.                             *)
ReqOK(r) ==
    \/ /\ r.op = "evaluate" /\ r.instrumen \in Instrumen
       /\ \E x, y : r.moves = {x, y} /\ MoveOK(x) /\ MoveOK(y)
    \/ /\ r.op = "cure" /\ r.instrumen \in Instrumen
       /\ r.tanggal \in 0 .. MaxDay /\ Earned(r.instrumen, r.tanggal)
    \/ /\ r.op = "submit" /\ r.instrumen \in Instrumen /\ r.from \in Stages /\ r.to \in Stages
       /\ validateOverrideTransition(r.from, r.to) /\ r.akhir \in Nat /\ r.actor \in Signers
    \/ r.op \in {"review", "reject"} /\ Known(r.id) /\ r.actor \in Signers
    \/ r.op = "alco" /\ Known(r.id) /\ r.actor \in Signers /\ override[r.id].reviewer # NoOne
    \/ /\ r.op = "komite" /\ Known(r.id) /\ r.actor \in Signers
       /\ override[r.id].reviewer # NoOne /\ override[r.id].alco # NoOne
    \/ r.op = "expire" /\ Known(r.id) /\ HasRow(r.id)

Signed(o, id) ==
    /\ o \in OverrideProposal /\ SodConstraints(o) /\ validateOverrideTransition(o.from, o.to)
    /\ o.status = "PENDING_APPROVAL" => o.reviewer # NoOne
    /\ o.status = "APPROVED_ALCO" => o.reviewer # NoOne /\ o.alco # NoOne
    /\ o.status \in {"ACTIVE", "EXPIRED"} => HasRow(id)

Typed ==
    /\ today \in 0 .. MaxDay /\ closed \subseteq Bulan /\ \A p \in closed : firstOfNextMonth(p) <= today
    /\ \A r \in dpdRecord : r.instrumen \in Instrumen /\ r.periode \in Bulan /\ r.dpd \in Overdue
    /\ stageHistory \subseteq StageHistoryEntry /\ IsFiniteSet(stageHistory)
    /\ DOMAIN override = Overrides
    /\ IsFiniteSet(inFlight) /\ Cardinality(inFlight) <= MaxInFlight

OverridesSigned == \A id \in Overrides : override[id] = NoOverride \/ Signed(override[id], id)

Backed(row) ==
    LET o == override[row.proposal] IN
    /\ Known(row.proposal) /\ <<row.sebelum, row.sesudah>> = <<o.from, o.to>>
    /\ o.reviewer # NoOne /\ o.alco # NoOne
    /\ row.sebelum = 3 => o.komite # NoOne
HistoryOK ==
    \A row \in stageHistory :
        /\ row.trigger = "MANUAL_OVERRIDE" => Backed(row)
        /\ row.trigger = "CURE_3_PERIODE_BULANAN" => Earned(row.instrumen, row.tanggal)

IInv == Typed /\ OverridesSigned /\ HistoryOK /\ \A r \in inFlight : ReqOK(r)

-----------------------------------------------------------------------------
LEMMA Calendar ==
    /\ \A p \in Bulan : p \in Nat /\ firstOfNextMonth(p) \in Nat /\ p <= firstOfNextMonth(p)
    /\ MaxDay \in Nat /\ BulanLen \in Nat
<1>1. MaxDay \in Nat /\ BulanLen \in Nat /\ BulanLen # 0
  BY StagingAssumption
<1>2. ASSUME NEW p \in Bulan PROVE p \in Nat
  <2>1. PICK n \in 0 .. (MaxDay \div BulanLen) : p = BulanLen * n
    BY <1>2 DEF Bulan
  <2>2. n \in Nat
    BY <2>1
  <2> QED BY <1>1, <2>1, <2>2
<1> QED BY <1>1, <1>2 DEF firstOfNextMonth

LEMMA MaxIsOne ==
    ASSUME NEW S, S \subseteq 0 .. MaxDay, S # {}
    PROVE  Max(S) \in S
<1> DEFINE D == {MaxDay - n : n \in S}
<1>0. MaxDay \in Nat
  BY Calendar
<1>1. D \subseteq Nat /\ D # {}
  <2>1. \A n \in S : n \in Nat /\ n <= MaxDay
    BY <1>0
  <2>2. PICK n \in S : TRUE
    OBVIOUS
  <2>3. MaxDay - n \in D
    BY <2>2
  <2>4. ASSUME NEW d \in D PROVE d \in Nat
    <3>1. PICK m \in S : d = MaxDay - m
      OBVIOUS
    <3>2. m \in Nat /\ m <= MaxDay
      BY <2>1
    <3> QED BY <1>0, <3>1, <3>2
  <2> QED BY <2>3, <2>4
<1>2. PICK d \in D : \A m \in D : ~ <<m, d>> \in OpToRel(<, Nat)
  BY <1>1, NatLessThanWellFounded, WFMin
<1>3. PICK x \in S : d = MaxDay - x
  OBVIOUS
<1>4. ASSUME NEW n \in S PROVE n <= x
  <2>1. MaxDay - n \in D /\ MaxDay - n \in Nat /\ d \in Nat /\ n \in Nat /\ x \in Nat
    BY <1>1
  <2>2. ~(MaxDay - n < d)
    BY <1>2, <2>1 DEF OpToRel
  <2> QED BY <1>0, <1>3, <2>1, <2>2
<1> HIDE DEF D
<1> QED BY <1>3, <1>4 DEF Max

(* More closed months, and rows for the worse dated today, take no cure     *)
(* away.                                                                    *)
LEMMA EarnedStays ==
    ASSUME Typed, closed \subseteq closed', NEW i, NEW t, Earned(i, t),
           \A row \in stageHistory' : row \in stageHistory \/ row.tanggal = today \/ row.sesudah = 1
    PROVE  Earned(i, t)'
<1>1. PICK P \in kSubset(3, closed) :
        /\ Max(P) = t
        /\ \A p \in P : ~\E row \in SicrRows(i) : row.tanggal \in p .. firstOfNextMonth(p) - 1
  BY DEF Earned
<1>2. P \in kSubset(3, closed') /\ P \subseteq closed
  BY <1>1 DEF kSubset
<1>3. ASSUME NEW p \in P, NEW row \in SicrRows(i)', row.tanggal \in p .. firstOfNextMonth(p) - 1
      PROVE  FALSE
  <2>1. p \in Nat /\ firstOfNextMonth(p) \in Nat /\ firstOfNextMonth(p) <= today /\ today \in Nat
    BY <1>2, <1>3, Calendar DEF Typed
  <2>2. row.tanggal # today
    BY <1>3, <2>1
  <2>3. row \in SicrRows(i)
    BY <1>3, <2>2 DEF SicrRows, RowsOf
  <2> QED BY <1>1, <1>3, <2>3
<1> QED BY <1>1, <1>2, <1>3 DEF Earned, firstOfNextMonth

\* Empty tables and no request satisfy the invariant.
THEOREM Initially == StagingInit => IInv
<1> SUFFICES ASSUME StagingInit PROVE IInv
  OBVIOUS
<1>1. Typed
  BY FS_EmptySet, StagingAssumption DEF StagingInit, Typed
<1> QED BY <1>1 DEF StagingInit, IInv, OverridesSigned, HistoryOK

-----------------------------------------------------------------------------
(* Facts of requests survive a step that takes away no history, no closed   *)
(* month, no proposal and no signature.                                     *)
LEMMA RequestStays ==
    ASSUME Typed, closed \subseteq closed', stageHistory \subseteq stageHistory',
           \A row \in stageHistory' : row \in stageHistory \/ row.tanggal = today \/ row.sesudah = 1,
           \A id \in Overrides : override[id] # NoOverride =>
               /\ override'[id] # NoOverride
               /\ override[id].reviewer # NoOne => override'[id].reviewer # NoOne
               /\ override[id].alco # NoOne => override'[id].alco # NoOne,
           NEW r, ReqOK(r)
    PROVE  ReqOK(r)'
<1>1. \A i, t : Earned(i, t) => Earned(i, t)'
  BY EarnedStays
<1>2. \A id : (Known(id) => Known(id)') /\ (HasRow(id) => HasRow(id)')
  BY DEF Known, HasRow
<1> QED BY <1>1, <1>2 DEF ReqOK, Known

LEMMA ServeStep ==
    ASSUME IInv, NEW r, ReqOK(r), Serving(r),
           UNCHANGED <<today, closed, dpdRecord, stageHistory, override>>
    PROVE  IInv'
<1>1. inFlight' = inFlight \cup {r} /\ IsFiniteSet(inFlight')
      /\ Cardinality(inFlight') = Cardinality(inFlight) + 1
      /\ Cardinality(inFlight) \in Nat /\ Cardinality(inFlight) < MaxInFlight
  BY FS_AddElement, FS_CardinalityType DEF IInv, Typed, Serving
<1>2. \A q \in inFlight' : ReqOK(q)'
  <2> SUFFICES ASSUME NEW q \in inFlight' PROVE ReqOK(q)'
    OBVIOUS
  <2>1. ReqOK(q)
    BY <1>1 DEF IInv
  <2> QED BY <2>1, RequestStays DEF IInv
<1>3. Cardinality(inFlight') <= MaxInFlight
  BY <1>1, StagingAssumption
<1>4. Typed'
  BY <1>1, <1>3 DEF IInv, Typed
<1>5. OverridesSigned'
  BY DEF IInv, OverridesSigned, Signed, HasRow
<1>6. HistoryOK'
  BY DEF IInv, HistoryOK, Backed, Known, Earned, SicrRows, RowsOf
<1> QED BY <1>2, <1>4, <1>5, <1>6 DEF IInv

LEMMA Finishes ==
    ASSUME Typed, NEW r, Served(r)
    PROVE  /\ inFlight' \subseteq inFlight /\ IsFiniteSet(inFlight')
           /\ Cardinality(inFlight') <= MaxInFlight
<1>1. inFlight' = inFlight \ {r} /\ IsFiniteSet(inFlight)
  BY DEF Served, Typed
<1>2. inFlight' \in SUBSET inFlight
  BY <1>1
<1>3. IsFiniteSet(inFlight') /\ Cardinality(inFlight') <= Cardinality(inFlight)
      /\ Cardinality(inFlight') \in Nat /\ Cardinality(inFlight) \in Nat
  BY <1>1, <1>2, FS_Subset, FS_CardinalityType
<1> QED BY <1>2, <1>3, StagingAssumption DEF Typed

LEMMA StagesKnown ==
    ASSUME Typed, NEW i, NEW stage \in CurrentStages(i)
    PROVE  stage \in Stages
BY DEF CurrentStages, RowsOf, Latest, Typed, StageHistoryEntry, Stages

-----------------------------------------------------------------------------
(* The first steps.                                                         *)
LEMMA EvaluateStep ==
    ASSUME IInv, NEW i \in Instrumen, NEW g \in Grades, EvaluateSingleInstrumen(i, g)
    PROVE  IInv'
<1>1. PICK stage \in CurrentStages(i) :
        LET dpd == LatestDPD(i)
            sicr == EvaluateSICR(OriginRating[i], g, OriginRating[i], dpd)
            new == ComputeNewStage(stage, sicr, dpd)
        IN /\ stage # 3 /\ new # stage
           /\ Serving([op |-> "evaluate", instrumen |-> i, moves |-> Moves(stage, new, sicr)])
  BY DEF EvaluateSingleInstrumen
<1> DEFINE dpd == LatestDPD(i)
           sicr == EvaluateSICR(OriginRating[i], g, OriginRating[i], dpd)
           new == ComputeNewStage(stage, sicr, dpd)
           moves == Moves(stage, new, sicr)
           r == [op |-> "evaluate", instrumen |-> i, moves |-> moves]
<1>2. stage \in {1, 2}
  BY <1>1, StagesKnown DEF IInv, Stages
<1>3. sicr \in {"RATING_DEFAULT", "DPD_GTE_30", "RATING_DOWNGRADE", "IG_TO_NON_IG", "NONE"}
  BY DEF EvaluateSICR
<1>4. new \in {2, 3} /\ new # stage /\ (new = 2 => stage = 1 /\ sicr # "NONE")
  <2>1. new # stage
    BY <1>1
  <2> HIDE DEF sicr, dpd
  <2> QED BY <1>2, <2>1 DEF ComputeNewStage
<1>5. \E x, y : moves = {x, y} /\ MoveOK(x) /\ MoveOK(y)
  <2> HIDE DEF sicr, new, dpd
  <2>1. CASE new = 3 /\ stage = 1
    <3>1. moves = {<<1, 2, "DPD_GTE_30">>, <<2, 3, "DPD_GTE_90">>}
      BY <2>1 DEF Moves
    <3> HIDE DEF moves
    <3>2. MoveOK(<<1, 2, "DPD_GTE_30">>) /\ MoveOK(<<2, 3, "DPD_GTE_90">>)
      BY DEF MoveOK, Stages, TriggerType
    <3> QED BY <3>1, <3>2
  <2>2. CASE new = 3 /\ stage # 1
    <3>1. moves = {<<stage, 3, "DPD_GTE_90">>}
      BY <2>2 DEF Moves
    <3> HIDE DEF moves
    <3>2. MoveOK(<<stage, 3, "DPD_GTE_90">>)
      BY <1>2 DEF MoveOK, Stages, TriggerType
    <3>3. moves = {<<stage, 3, "DPD_GTE_90">>, <<stage, 3, "DPD_GTE_90">>}
      BY <3>1
    <3> QED BY <3>2, <3>3
  <2>3. CASE new = 2
    <3>1. moves = {<<1, 2, sicr>>}
      BY <2>3, <1>4 DEF Moves
    <3> HIDE DEF moves
    <3>2. MoveOK(<<1, 2, sicr>>)
      BY <1>3, <1>4, <2>3 DEF MoveOK, Stages, TriggerType
    <3>3. moves = {<<1, 2, sicr>>, <<1, 2, sicr>>}
      BY <3>1
    <3> QED BY <3>2, <3>3
  <2> QED BY <1>4, <2>1, <2>2, <2>3
<1>6. Serving(r) /\ UNCHANGED <<today, closed, dpdRecord, stageHistory, override>>
  BY <1>1 DEF EvaluateSingleInstrumen
<1> HIDE DEF moves
<1>7. r.op = "evaluate" /\ r.instrumen = i /\ r.moves = moves
  OBVIOUS
<1> HIDE DEF r
<1>8. ReqOK(r)
  BY <1>5, <1>7 DEF ReqOK
<1> QED BY <1>6, <1>8, ServeStep

LEMMA CureStep ==
    ASSUME IInv, NEW i \in Instrumen, AssessCure(i)
    PROVE  IInv'
<1>1. PICK recent \in CurePeriods(i) :
        /\ \A p \in recent : CleanPeriode(i, p)
        /\ Serving([op |-> "cure", instrumen |-> i, tanggal |-> Max(recent)])
  BY DEF AssessCure
<1>2. recent \in kSubset(3, closed) /\ recent \subseteq closed
  BY DEF CurePeriods, kSubset, ListClosedBulananSince
<1>3. recent # {} /\ recent \subseteq 0 .. MaxDay
  <2>1. Cardinality(recent) = 3
    BY <1>2 DEF kSubset
  <2>2. \A p \in recent : p \in Nat /\ firstOfNextMonth(p) \in Nat /\ p <= firstOfNextMonth(p)
                          /\ firstOfNextMonth(p) <= today /\ today \in Nat /\ today <= MaxDay
    BY <1>2, Calendar DEF IInv, Typed
  <2> QED BY <2>1, <2>2, FS_EmptySet, Calendar
<1>4. Max(recent) \in 0 .. MaxDay
  BY <1>3, MaxIsOne
<1>5. Earned(i, Max(recent))
  <2>1. ASSUME NEW p \in recent, NEW row \in SicrRows(i), row.tanggal \in p .. firstOfNextMonth(p) - 1
        PROVE  FALSE
    <3>1. p \in Nat /\ firstOfNextMonth(p) \in Nat
      BY <1>2, <2>1, Calendar DEF IInv, Typed
    <3>2. row.tanggal \in p .. firstOfNextMonth(p)
      BY <2>1, <3>1
    <3>3. ~HasSICRInPeriode(i, p, firstOfNextMonth(p))
      BY <1>1 DEF CleanPeriode
    <3> QED BY <3>2, <3>3 DEF HasSICRInPeriode
  <2> QED BY <1>2, <2>1 DEF Earned
<1> DEFINE r == [op |-> "cure", instrumen |-> i, tanggal |-> Max(recent)]
<1>6. r.op = "cure" /\ r.instrumen = i /\ r.tanggal = Max(recent) /\ Serving(r)
  BY <1>1
<1> HIDE DEF r
<1>7. UNCHANGED <<today, closed, dpdRecord, stageHistory, override>>
  BY DEF AssessCure
<1> QED BY <1>4, <1>5, <1>6, <1>7, ServeStep DEF ReqOK

LEMMA SubmitStep ==
    ASSUME IInv, NEW i \in Instrumen, NEW to \in Stages, NEW p \in Proposed, NEW u \in Signers,
           SubmitOverride(i, to, p, u)
    PROVE  IInv'
<1>1. PICK from \in CurrentStages(i) :
        /\ validateOverrideTransition(from, to)
        /\ Serving([op |-> "submit", instrumen |-> i, from |-> from, to |-> to,
                    akhir |-> firstOfNextMonth(p) - 1, actor |-> u])
  BY DEF SubmitOverride
<1>2. from \in Stages
  BY StagesKnown DEF IInv
<1>3. firstOfNextMonth(p) - 1 \in Nat
  BY StagingAssumption DEF firstOfNextMonth
<1> DEFINE r == [op |-> "submit", instrumen |-> i, from |-> from, to |-> to,
                 akhir |-> firstOfNextMonth(p) - 1, actor |-> u]
<1>4. /\ r.op = "submit" /\ r.instrumen = i /\ r.from = from /\ r.to = to
      /\ r.akhir = firstOfNextMonth(p) - 1 /\ r.actor = u /\ Serving(r)
  BY <1>1
<1> HIDE DEF r
<1>5. UNCHANGED <<today, closed, dpdRecord, stageHistory, override>>
  BY DEF SubmitOverride
<1> QED BY <1>1, <1>2, <1>3, <1>4, <1>5, ServeStep DEF ReqOK

LEMMA SignStep ==
    ASSUME IInv, NEW id \in Overrides, NEW u \in Signers,
           \/ ReviewOverride(id, u) \/ RejectOverride(id, u)
           \/ \E needsStepUp \in BOOLEAN : ApproveALCO(id, u, needsStepUp) \/ ApproveKomite(id, u, needsStepUp)
    PROVE  IInv'
<1>1. PICK op \in {"review", "reject", "alco", "komite"} :
        /\ Serving([op |-> op, id |-> id, actor |-> u, seen |-> override[id].status])
        /\ override[id].status \in PendingOverride
        /\ op = "alco" => override[id].status = "PENDING_APPROVAL"
        /\ op = "komite" => override[id].status = "APPROVED_ALCO"
  BY DEF ReviewOverride, RejectOverride, ApproveALCO, ApproveKomite, Sign, PendingOverride
<1>2. UNCHANGED <<today, closed, dpdRecord, stageHistory, override>>
  BY DEF ReviewOverride, RejectOverride, ApproveALCO, ApproveKomite, Sign
<1>3. Known(id) /\ Signed(override[id], id)
  BY <1>1 DEF Known, NoOverride, PendingOverride, IInv, OverridesSigned
<1> DEFINE r == [op |-> op, id |-> id, actor |-> u, seen |-> override[id].status]
<1>4. r.op = op /\ r.id = id /\ r.actor = u /\ Serving(r)
  BY <1>1
<1> HIDE DEF r
<1>5. ReqOK(r)
  BY <1>1, <1>3, <1>4 DEF ReqOK, Signed
<1> QED BY <1>2, <1>4, <1>5, ServeStep

LEMMA ExpiryStep ==
    ASSUME IInv, NEW id \in Overrides, HandleOverrideExpiryCheck(id)
    PROVE  IInv'
<1> DEFINE r == [op |-> "expire", id |-> id]
<1>1. Serving(r) /\ UNCHANGED <<today, closed, dpdRecord, stageHistory, override>>
      /\ override[id].status = "ACTIVE"
  BY DEF HandleOverrideExpiryCheck, ListExpiredActive
<1>2. Known(id) /\ HasRow(id)
  BY <1>1 DEF Known, NoOverride, IInv, OverridesSigned, Signed
<1>3. r.op = "expire" /\ r.id = id
  OBVIOUS
<1> HIDE DEF r
<1> QED BY <1>1, <1>2, <1>3, ServeStep DEF ReqOK

-----------------------------------------------------------------------------
(* What every transaction keeps: history and signatures grow.               *)
Grown(o, n) ==
    o # NoOverride =>
        /\ n # NoOverride /\ n.from = o.from /\ n.to = o.to
        /\ o.reviewer # NoOne => n.reviewer # NoOne
        /\ o.alco # NoOne => n.alco # NoOne
        /\ o.komite # NoOne => n.komite # NoOne

LEMMA SignedStays ==
    ASSUME stageHistory \subseteq stageHistory', NEW o, NEW id, Signed(o, id)
    PROVE  Signed(o, id)'
BY DEF Signed, HasRow, SodConstraints, validateOverrideTransition

LEMMA CommitKeeps ==
    ASSUME IInv, NEW r, Served(r), UNCHANGED <<today, closed, dpdRecord>>,
           stageHistory \subseteq stageHistory', stageHistory' \subseteq StageHistoryEntry,
           IsFiniteSet(stageHistory'),
           \A row \in stageHistory' : row \in stageHistory \/ row.tanggal = today \/ row.sesudah = 1,
           DOMAIN override' = Overrides,
           \A id \in Overrides : Grown(override[id], override'[id]),
           \A id \in Overrides : override'[id] = NoOverride \/ Signed(override[id], id)',
           \A row \in stageHistory' \ stageHistory :
               /\ row.trigger = "MANUAL_OVERRIDE" => Backed(row)'
               /\ row.trigger = "CURE_3_PERIODE_BULANAN" => Earned(row.instrumen, row.tanggal)
    PROVE  IInv'
<1>1. Typed'
  BY Finishes DEF IInv, Typed, firstOfNextMonth
<1>2. OverridesSigned'
  BY DEF OverridesSigned
<1>3. \A i, t : Earned(i, t) => Earned(i, t)'
  BY EarnedStays DEF IInv
<1>4. HistoryOK'
  <2> SUFFICES ASSUME NEW row \in stageHistory'
               PROVE  /\ row.trigger = "MANUAL_OVERRIDE" => Backed(row)'
                      /\ row.trigger = "CURE_3_PERIODE_BULANAN" => Earned(row.instrumen, row.tanggal)'
    BY DEF HistoryOK
  <2>1. CASE row \in stageHistory
    <3>1. /\ row.trigger = "MANUAL_OVERRIDE" => Backed(row)
          /\ row.trigger = "CURE_3_PERIODE_BULANAN" => Earned(row.instrumen, row.tanggal)
      BY <2>1 DEF IInv, HistoryOK
    <3>2. Backed(row) => Backed(row)'
      BY DEF Backed, Known, Grown
    <3> QED BY <1>3, <3>1, <3>2
  <2>2. CASE row \notin stageHistory
    BY <1>3, <2>2
  <2> QED BY <2>1, <2>2
<1>5. \A q \in inFlight' : ReqOK(q)'
  <2> SUFFICES ASSUME NEW q \in inFlight' PROVE ReqOK(q)'
    OBVIOUS
  <2>1. ReqOK(q)
    BY Finishes DEF IInv
  <2>2. \A id \in Overrides : override[id] # NoOverride =>
               /\ override'[id] # NoOverride
               /\ override[id].reviewer # NoOne => override'[id].reviewer # NoOne
               /\ override[id].alco # NoOne => override'[id].alco # NoOne
    BY DEF Grown
  <2> QED BY <2>1, <2>2, RequestStays DEF IInv
<1> QED BY <1>1, <1>2, <1>4, <1>5 DEF IInv

(* Its case of a transaction that writes history rows only.                 *)
LEMMA HistoryCommit ==
    ASSUME IInv, NEW r, Served(r), UNCHANGED <<today, closed, dpdRecord, override>>,
           NEW rows, IsFiniteSet(rows), rows \subseteq StageHistoryEntry,
           stageHistory' = stageHistory \/ stageHistory' = stageHistory \cup rows,
           \A row \in rows : /\ row.tanggal = today \/ row.sesudah = 1
                             /\ row.trigger # "MANUAL_OVERRIDE"
                             /\ row.trigger = "CURE_3_PERIODE_BULANAN" => Earned(row.instrumen, row.tanggal)
    PROVE  IInv'
<1>1. /\ stageHistory \subseteq stageHistory' /\ stageHistory' \subseteq stageHistory \cup rows
      /\ stageHistory' \subseteq StageHistoryEntry /\ IsFiniteSet(stageHistory')
  BY FS_Union DEF IInv, Typed
<1>2. \A id \in Overrides : override'[id] = NoOverride \/ Signed(override[id], id)'
  <2> SUFFICES ASSUME NEW id \in Overrides, override[id] # NoOverride PROVE Signed(override[id], id)'
    OBVIOUS
  <2> DEFINE o == override[id]
  <2>1. Signed(o, id)
    BY DEF IInv, OverridesSigned
  <2>2. o' = o
    OBVIOUS
  <2> QED BY <1>1, <2>1, <2>2 DEF Signed, HasRow, SodConstraints, validateOverrideTransition
<1>3. \A id \in Overrides : Grown(override[id], override'[id])
  BY DEF Grown
<1>4. DOMAIN override' = Overrides
  BY DEF IInv, Typed
<1> QED BY <1>1, <1>2, <1>3, <1>4, CommitKeeps

LEMMA EvaluateCommitStep ==
    ASSUME IInv, NEW r \in inFlight, EvaluateCommit(r)
    PROVE  IInv'
<1> DEFINE E(m) == Entry(r.instrumen, m[1], m[2], m[3], today, NoOne)
           rows == {E(m) : m \in r.moves}
<1>1. /\ Served(r) /\ UNCHANGED <<today, closed, dpdRecord, override>>
      /\ Cardinality(stageHistory \cup rows) <= MaxHistory
      /\ stageHistory' = stageHistory \/ stageHistory' = stageHistory \cup rows
  BY DEF EvaluateCommit
<1>2. r.instrumen \in Instrumen /\ \E x, y : r.moves = {x, y} /\ MoveOK(x) /\ MoveOK(y)
  BY DEF IInv, ReqOK, EvaluateCommit
<1>3. IsFiniteSet(rows)
  <2>1. PICK x, y : r.moves = {x, y}
    BY <1>2
  <2>2. rows = {E(x)} \cup {E(y)}
    BY <2>1
  <2> HIDE DEF E, rows
  <2> QED BY <2>2, FS_Singleton, FS_Union
<1>4. Cardinality(stageHistory) \in 0 .. MaxHistory
  <2>1. IsFiniteSet(stageHistory) /\ stageHistory \in SUBSET (stageHistory \cup rows)
    BY DEF IInv, Typed
  <2> HIDE DEF rows
  <2>2. IsFiniteSet(stageHistory \cup rows)
    BY <1>3, <2>1, FS_Union
  <2>3. Cardinality(stageHistory) <= Cardinality(stageHistory \cup rows)
        /\ Cardinality(stageHistory) \in Nat /\ Cardinality(stageHistory \cup rows) \in Nat
    BY <2>1, <2>2, FS_Subset, FS_CardinalityType
  <2> QED BY <1>1, <2>3, StagingAssumption
<1>5. ASSUME NEW m \in r.moves
      PROVE  /\ E(m) \in StageHistoryEntry /\ E(m).tanggal = today
             /\ E(m).trigger \notin {"MANUAL_OVERRIDE", "CURE_3_PERIODE_BULANAN"}
  <2>1. MoveOK(m)
    BY <1>2, <1>5
  <2>2. /\ m[1] \in Stages /\ m[2] \in Stages /\ m[3] \in TriggerType
        /\ m[3] \notin {"MANUAL_OVERRIDE", "CURE_3_PERIODE_BULANAN"}
    BY <2>1 DEF MoveOK, Stages
  <2>3. today \in 0 .. MaxDay
    BY DEF IInv, Typed
  <2> QED BY <1>2, <1>4, <2>2, <2>3 DEF Entry, StageHistoryEntry
<1>6. \A row \in rows : /\ row \in StageHistoryEntry /\ row.tanggal = today
                        /\ row.trigger \notin {"MANUAL_OVERRIDE", "CURE_3_PERIODE_BULANAN"}
  BY <1>5
<1> HIDE DEF rows
<1> QED BY <1>1, <1>3, <1>6, HistoryCommit

LEMMA CureCommitStep ==
    ASSUME IInv, NEW r \in inFlight, CureCommit(r)
    PROVE  IInv'
<1> DEFINE row == Entry(r.instrumen, 2, 1, "CURE_3_PERIODE_BULANAN", r.tanggal, NoOne)
<1>1. /\ Served(r) /\ UNCHANGED <<today, closed, dpdRecord, override>>
      /\ Cardinality(stageHistory) < MaxHistory
      /\ stageHistory' = stageHistory \/ stageHistory' = stageHistory \cup {row}
  BY DEF CureCommit
<1>2. r.instrumen \in Instrumen /\ r.tanggal \in 0 .. MaxDay /\ Earned(r.instrumen, r.tanggal)
  BY DEF IInv, ReqOK, CureCommit
<1>3. Cardinality(stageHistory) \in 0 .. MaxHistory
  BY <1>1, FS_CardinalityType, StagingAssumption DEF IInv, Typed
<1>4. /\ row \in StageHistoryEntry /\ row.sesudah = 1 /\ row.trigger = "CURE_3_PERIODE_BULANAN"
      /\ row.instrumen = r.instrumen /\ row.tanggal = r.tanggal
  BY <1>2, <1>3 DEF Entry, StageHistoryEntry, Stages, TriggerType
<1> HIDE DEF row
<1>5. IsFiniteSet({row})
  BY FS_Singleton
<1> QED BY <1>1, <1>2, <1>4, <1>5, HistoryCommit

(* Its case of a transaction that writes one proposal only.                 *)
LEMMA ProposalCommit ==
    ASSUME IInv, NEW r, Served(r), UNCHANGED <<today, closed, dpdRecord, stageHistory>>,
           NEW id \in Overrides, NEW o, Grown(override[id], o), Signed(o, id),
           override' = [override EXCEPT ![id] = o] \/ override' = override
    PROVE  IInv'
<1>1. DOMAIN override = Overrides /\ IsFiniteSet(stageHistory) /\ stageHistory \subseteq StageHistoryEntry
  BY DEF IInv, Typed
<1>2. \A x \in Overrides : override'[x] = override[x] \/ (x = id /\ override'[x] = o)
  BY <1>1
<1>3. ASSUME NEW x \in Overrides
      PROVE  /\ Grown(override[x], override'[x])
             /\ override'[x] = NoOverride \/ Signed(override[x], x)'
  <2>1. Grown(override[x], override'[x])
    BY <1>2, <1>3 DEF Grown
  <2>2. override'[x] = NoOverride \/ Signed(override'[x], x)
    BY <1>2, <1>3 DEF IInv, OverridesSigned
  <2>3. override'[x] = NoOverride \/ Signed(override[x], x)'
    BY <2>2 DEF Signed, HasRow, SodConstraints, validateOverrideTransition
  <2> QED BY <2>1, <2>3
<1>4. DOMAIN override' = Overrides
  BY <1>1
<1>5. \A row \in stageHistory' \ stageHistory :
               /\ row.trigger = "MANUAL_OVERRIDE" => Backed(row)'
               /\ row.trigger = "CURE_3_PERIODE_BULANAN" => Earned(row.instrumen, row.tanggal)
  OBVIOUS
<1>6. /\ stageHistory \subseteq stageHistory' /\ stageHistory' \subseteq StageHistoryEntry
      /\ IsFiniteSet(stageHistory')
      /\ \A row \in stageHistory' : row \in stageHistory \/ row.tanggal = today \/ row.sesudah = 1
  BY <1>1
<1> QED BY <1>3, <1>4, <1>5, <1>6, CommitKeeps

LEMMA WrittenCommit ==
    ASSUME IInv, NEW r, Served(r), UNCHANGED <<today, closed, dpdRecord, stageHistory>>,
           NEW id, Known(id), NEW o, OverrideWritten(id, o), Grown(override[id], o),
           SodConstraints(o) => Signed(o, id)
    PROVE  IInv'
<1>1. CASE SodConstraints(o)
  BY <1>1, ProposalCommit DEF OverrideWritten, Known
<1>2. CASE ~SodConstraints(o)
  <2>1. override' = override
    BY <1>2 DEF OverrideWritten
  <2>2. Signed(override[id], id) /\ Grown(override[id], override[id])
    BY DEF IInv, OverridesSigned, Known, Grown
  <2> QED BY <2>1, <2>2, ProposalCommit DEF Known
<1> QED BY <1>1, <1>2

LEMMA SubmitCommitStep ==
    ASSUME IInv, NEW r \in inFlight, SubmitCommit(r)
    PROVE  IInv'
<1>1. PICK id \in Overrides :
        /\ override[id] = NoOverride
        /\ override' = [override EXCEPT ![id] =
               [status |-> "PENDING_REVIEW", instrumen |-> r.instrumen, from |-> r.from,
                to |-> r.to, akhir |-> r.akhir, maker |-> r.actor, reviewer |-> NoOne,
                alco |-> NoOne, komite |-> NoOne, activated |-> FALSE]]
  BY DEF SubmitCommit
<1> DEFINE o == [status |-> "PENDING_REVIEW", instrumen |-> r.instrumen, from |-> r.from,
                 to |-> r.to, akhir |-> r.akhir, maker |-> r.actor, reviewer |-> NoOne,
                 alco |-> NoOne, komite |-> NoOne, activated |-> FALSE]
<1>2. /\ r.instrumen \in Instrumen /\ r.from \in Stages /\ r.to \in Stages
      /\ validateOverrideTransition(r.from, r.to) /\ r.akhir \in Nat /\ r.actor \in Signers
  BY DEF IInv, ReqOK, SubmitCommit
<1>3. o \in OverrideProposal
  BY <1>2 DEF OverrideProposal, OverrideStatus, PendingOverride
<1>4. /\ o.status = "PENDING_REVIEW" /\ o.from = r.from /\ o.to = r.to
      /\ o.reviewer = NoOne /\ o.alco = NoOne /\ o.komite = NoOne
  OBVIOUS
<1>5. override' = [override EXCEPT ![id] = o]
  BY <1>1
<1> HIDE DEF o
<1>6. SodConstraints(o)
  BY <1>4 DEF SodConstraints
<1>7. Signed(o, id)
  BY <1>2, <1>3, <1>4, <1>6 DEF Signed
<1>8. Grown(override[id], o)
  BY <1>1 DEF Grown
<1>9. Served(r) /\ UNCHANGED <<today, closed, dpdRecord, stageHistory>>
  BY DEF SubmitCommit
<1> QED BY <1>5, <1>7, <1>8, <1>9, ProposalCommit

-----------------------------------------------------------------------------
(* A proposal that may bear another status and signatures in place of its   *)
(* own or of none.                                                          *)
Amends(o, p) ==
    /\ o \in OverrideProposal /\ o.from = p.from /\ o.to = p.to
    /\ o.reviewer = p.reviewer \/ o.reviewer \in Signers
    /\ o.alco = p.alco \/ o.alco \in Signers
    /\ o.komite = p.komite \/ o.komite \in Signers

LEMMA AmendsGrows ==
    ASSUME NEW p, NEW o, Amends(o, p)
    PROVE  Grown(p, o)
<1>1. o.status # "NONE"
  BY DEF Amends, OverrideProposal, OverrideStatus, PendingOverride
<1>2. o # NoOverride
  BY <1>1 DEF NoOverride
<1> QED BY <1>2, StagingAssumption DEF Amends, Grown

LEMMA KnownSigned ==
    ASSUME IInv, NEW id, Known(id)
    PROVE  Signed(override[id], id) /\ override[id] \in OverrideProposal
BY DEF IInv, OverridesSigned, Known, Signed

LEMMA ReviewCommitStep ==
    ASSUME IInv, NEW r \in inFlight, ReviewCommit(r)
    PROVE  IInv'
<1> DEFINE p == override[r.id]
           o == [p EXCEPT !.status = "PENDING_APPROVAL", !.reviewer = r.actor]
<1>1. Known(r.id) /\ r.actor \in Signers
  BY DEF IInv, ReqOK, ReviewCommit
<1>2. Signed(p, r.id) /\ p \in OverrideProposal
  BY <1>1, KnownSigned
<1>3. /\ Served(r) /\ UNCHANGED <<today, closed, dpdRecord, stageHistory>>
      /\ OverrideWritten(r.id, o)
  BY DEF ReviewCommit
<1> HIDE DEF p
<1>4. Amends(o, p) /\ o.status = "PENDING_APPROVAL" /\ o.reviewer = r.actor
  BY <1>1, <1>2 DEF Amends, OverrideProposal, OverrideStatus, PendingOverride
<1> HIDE DEF o
<1>5. SodConstraints(o) => Signed(o, r.id)
  BY <1>1, <1>2, <1>4, StagingAssumption DEF Signed, Amends
<1>6. Grown(override[r.id], o)
  BY <1>4, AmendsGrows DEF p
<1> QED BY <1>1, <1>3, <1>5, <1>6, WrittenCommit

LEMMA RejectCommitStep ==
    ASSUME IInv, NEW r \in inFlight, RejectCommit(r)
    PROVE  IInv'
<1> DEFINE p == override[r.id]
           o == [p EXCEPT !.status = "REJECTED"]
<1>1. Known(r.id)
  BY DEF IInv, ReqOK, RejectCommit
<1>2. Signed(p, r.id) /\ p \in OverrideProposal
  BY <1>1, KnownSigned
<1>3. /\ Served(r) /\ UNCHANGED <<today, closed, dpdRecord, stageHistory>>
      /\ OverrideWritten(r.id, o)
  BY DEF RejectCommit
<1> HIDE DEF p
<1>4. Amends(o, p) /\ o.status = "REJECTED"
  BY <1>2 DEF Amends, OverrideProposal, OverrideStatus, PendingOverride
<1> HIDE DEF o
<1>5. SodConstraints(o) => Signed(o, r.id)
  BY <1>2, <1>4 DEF Signed, Amends
<1>6. Grown(override[r.id], o)
  BY <1>4, AmendsGrows DEF p
<1> QED BY <1>1, <1>3, <1>5, <1>6, WrittenCommit

LEMMA MarkExpiredStep ==
    ASSUME IInv, NEW r \in inFlight, MarkExpired(r)
    PROVE  IInv'
<1> DEFINE p == override[r.id]
           o == [p EXCEPT !.status = "EXPIRED"]
<1>1. Known(r.id) /\ HasRow(r.id)
  BY DEF IInv, ReqOK, MarkExpired
<1>2. Signed(p, r.id) /\ p \in OverrideProposal
  BY <1>1, KnownSigned
<1>3. /\ Served(r) /\ UNCHANGED <<today, closed, dpdRecord, stageHistory>>
      /\ override' = [override EXCEPT ![r.id] = o]
  BY DEF MarkExpired
<1> HIDE DEF p
<1>4. /\ Amends(o, p) /\ o.status = "EXPIRED" /\ o.maker = p.maker /\ o.reviewer = p.reviewer
      /\ o.alco = p.alco /\ o.komite = p.komite
  BY <1>2 DEF Amends, OverrideProposal, OverrideStatus, PendingOverride
<1> HIDE DEF o
<1>5. SodConstraints(o)
  BY <1>2, <1>4 DEF Signed, SodConstraints
<1>6. Signed(o, r.id)
  BY <1>1, <1>2, <1>4, <1>5 DEF Signed, Amends
<1>7. Grown(override[r.id], o)
  BY <1>4, AmendsGrows DEF p
<1> QED BY <1>1, <1>3, <1>6, <1>7, ProposalCommit DEF Known

-----------------------------------------------------------------------------
(* The last signature.                                                      *)
LEMMA ActivateStep ==
    ASSUME IInv, NEW r, Served(r), UNCHANGED <<today, closed, dpdRecord>>,
           NEW id, Known(id), NEW o, Amends(o, override[id]),
           o.instrumen = override[id].instrumen,
           validateOverrideTransition(o.from, o.to),
           o.reviewer # NoOne, o.alco # NoOne, o.from = 3 => o.komite # NoOne,
           activateOverride(id, o)
    PROVE  IInv'
<1> DEFINE row == Entry(o.instrumen, o.from, o.to, "MANUAL_OVERRIDE", today, id)
           n == [o EXCEPT !.status = "ACTIVE", !.activated = TRUE]
           ok == SodConstraints(o) /\ ~Conflicts(row)
<1>1. /\ Cardinality(stageHistory) < MaxHistory
      /\ stageHistory' = IF ok THEN stageHistory \cup {row} ELSE stageHistory
      /\ override' = IF ok THEN [override EXCEPT ![id] = n] ELSE override
  BY DEF activateOverride
<1>2. Signed(override[id], id) /\ override[id] \in OverrideProposal
  BY KnownSigned
<1>3. CASE ~ok
  <2>1. Grown(override[id], override[id])
    BY DEF Known, Grown
  <2> QED BY <1>1, <1>2, <1>3, <2>1, ProposalCommit DEF Known
<1>4. CASE ok
  <2>1. /\ row \in StageHistoryEntry /\ row.trigger = "MANUAL_OVERRIDE" /\ row.proposal = id
        /\ row.sebelum = o.from /\ row.sesudah = o.to /\ row.tanggal = today
    <3>1. Cardinality(stageHistory) \in 0 .. MaxHistory /\ today \in 0 .. MaxDay
      BY <1>1, FS_CardinalityType, StagingAssumption DEF IInv, Typed
    <3>2. o.instrumen \in Instrumen /\ o.from \in Stages /\ o.to \in Stages /\ id \in Overrides
      BY DEF Amends, OverrideProposal, Known
    <3> QED BY <3>1, <3>2 DEF Entry, StageHistoryEntry, TriggerType
  <2>2. /\ Amends(n, override[id]) /\ n.status = "ACTIVE" /\ n.maker = o.maker
        /\ n.reviewer = o.reviewer /\ n.alco = o.alco /\ n.komite = o.komite
        /\ n.from = o.from /\ n.to = o.to
    BY DEF Amends, OverrideProposal, OverrideStatus
  <2>3. /\ stageHistory' = stageHistory \cup {row} /\ override' = [override EXCEPT ![id] = n]
        /\ SodConstraints(o)
    BY <1>1, <1>4
  <2>0. PICK written : written = row
    OBVIOUS
  <2> HIDE DEF row, n, ok
  <2>4. Grown(override[id], n)
    BY <2>2, AmendsGrows
  <2>5. SodConstraints(n)
    BY <2>2, <2>3 DEF SodConstraints
  <2>6. HasRow(id)'
    BY <2>1, <2>3 DEF HasRow
  <2>7. Signed(n, id)'
    <3>1. /\ n \in OverrideProposal /\ validateOverrideTransition(n.from, n.to) /\ n.status = "ACTIVE"
      BY <2>2 DEF Amends
    <3> QED BY <2>5, <2>6, <3>1 DEF Signed, SodConstraints, validateOverrideTransition
  <2>8. /\ DOMAIN override = Overrides /\ IsFiniteSet(stageHistory)
        /\ stageHistory \subseteq StageHistoryEntry /\ id \in Overrides
    BY DEF IInv, Typed, Known
  <2>9. \A x \in Overrides : override'[x] = IF x = id THEN n ELSE override[x]
    BY <2>3, <2>8
  <2>10. DOMAIN override' = Overrides
    BY <2>3, <2>8
  <2>11. \A x \in Overrides : Grown(override[x], override'[x])
    BY <2>4, <2>9 DEF Grown
  <2>12. stageHistory \subseteq stageHistory'
    BY <2>3
  <2>13. ASSUME NEW x \in Overrides, override'[x] # NoOverride PROVE Signed(override[x], x)'
    <3>1. CASE x = id
      <4>1. override'[x] = n
        BY <2>9, <3>1
      <4> QED BY <2>7, <3>1, <4>1 DEF Signed, HasRow, SodConstraints, validateOverrideTransition
    <3>2. CASE x # id
      <4>1. override'[x] = override[x] /\ Signed(override[x], x)
        BY <2>9, <2>13, <3>2 DEF IInv, OverridesSigned
      <4> QED BY <2>12, <4>1 DEF Signed, HasRow, SodConstraints, validateOverrideTransition
    <3> QED BY <3>1, <3>2
  <2>14. Backed(written)'
    <3>1. override'[id] = n /\ n # NoOverride
      BY <2>4, <2>8, <2>9 DEF Grown, Known
    <3> QED BY <2>0, <2>1, <2>2, <2>8, <3>1 DEF Backed, Known
  <2>15. /\ stageHistory' \subseteq StageHistoryEntry /\ IsFiniteSet(stageHistory')
         /\ \A e \in stageHistory' : e \in stageHistory \/ e.tanggal = today \/ e.sesudah = 1
    BY <2>1, <2>3, <2>8, FS_AddElement
  <2>16. \A e \in stageHistory' \ stageHistory :
            /\ e.trigger = "MANUAL_OVERRIDE" => Backed(e)'
            /\ e.trigger = "CURE_3_PERIODE_BULANAN" => Earned(e.instrumen, e.tanggal)
    BY <2>0, <2>1, <2>3, <2>14
  <2> QED BY <2>10, <2>11, <2>12, <2>13, <2>15, <2>16, CommitKeeps
<1> QED BY <1>3, <1>4

LEMMA AlcoCommitStep ==
    ASSUME IInv, NEW r \in inFlight, AlcoCommit(r)
    PROVE  IInv'
<1> DEFINE p == override[r.id]
           o == [p EXCEPT !.alco = r.actor]
           s == [o EXCEPT !.status = "APPROVED_ALCO"]
<1>1. Known(r.id) /\ r.actor \in Signers /\ p.reviewer # NoOne
  BY DEF IInv, ReqOK, AlcoCommit
<1>2. Signed(p, r.id) /\ p \in OverrideProposal
  BY <1>1, KnownSigned
<1>3. Served(r) /\ UNCHANGED <<today, closed, dpdRecord>>
  BY DEF AlcoCommit
<1>4. \/ Is6Eyes(o) /\ OverrideWritten(r.id, s) /\ UNCHANGED stageHistory
      \/ ~Is6Eyes(o) /\ activateOverride(r.id, o)
  BY DEF AlcoCommit
<1> HIDE DEF p
<1>5. /\ Amends(o, p) /\ o.alco = r.actor /\ o.reviewer = p.reviewer /\ o.instrumen = p.instrumen
      /\ o.from = p.from /\ o.to = p.to
  BY <1>1, <1>2 DEF Amends, OverrideProposal
<1>6. Amends(s, p) /\ s.alco = r.actor /\ s.reviewer = p.reviewer /\ s.status = "APPROVED_ALCO"
  BY <1>1, <1>2 DEF Amends, OverrideProposal, OverrideStatus, PendingOverride
<1> HIDE DEF o, s
<1>7. r.actor # NoOne
  BY <1>1, StagingAssumption
<1>8. CASE Is6Eyes(o) /\ OverrideWritten(r.id, s) /\ UNCHANGED stageHistory
  <2>1. SodConstraints(s) => Signed(s, r.id)
    BY <1>1, <1>2, <1>6, <1>7 DEF Signed, Amends
  <2>2. Grown(override[r.id], s)
    BY <1>6, AmendsGrows DEF p
  <2> QED BY <1>1, <1>3, <1>8, <2>1, <2>2, WrittenCommit
<1>9. CASE ~Is6Eyes(o) /\ activateOverride(r.id, o)
  <2>1. validateOverrideTransition(o.from, o.to) /\ o.from # 3
    BY <1>2, <1>5, <1>9 DEF Signed, validateOverrideTransition, Is6Eyes
  <2> QED BY <1>1, <1>3, <1>5, <1>7, <1>9, <2>1, ActivateStep DEF p
<1> QED BY <1>4, <1>8, <1>9

LEMMA KomiteCommitStep ==
    ASSUME IInv, NEW r \in inFlight, KomiteCommit(r)
    PROVE  IInv'
<1> DEFINE p == override[r.id]
           o == [p EXCEPT !.komite = r.actor]
<1>1. Known(r.id) /\ r.actor \in Signers /\ p.reviewer # NoOne /\ p.alco # NoOne
  BY DEF IInv, ReqOK, KomiteCommit
<1>2. Signed(p, r.id) /\ p \in OverrideProposal
  BY <1>1, KnownSigned
<1>3. Served(r) /\ UNCHANGED <<today, closed, dpdRecord>> /\ activateOverride(r.id, o)
  BY DEF KomiteCommit
<1> HIDE DEF p
<1>4. /\ Amends(o, p) /\ o.komite = r.actor /\ o.reviewer = p.reviewer /\ o.alco = p.alco
      /\ o.instrumen = p.instrumen /\ o.from = p.from /\ o.to = p.to
  BY <1>1, <1>2 DEF Amends, OverrideProposal
<1> HIDE DEF o
<1>5. validateOverrideTransition(o.from, o.to) /\ o.komite # NoOne
  BY <1>1, <1>2, <1>4, StagingAssumption DEF Signed
<1> QED BY <1>1, <1>3, <1>4, <1>5, ActivateStep DEF p

-----------------------------------------------------------------------------
(* Nothing in flight when the day changes, and months closing.              *)
LEMMA NextDayStep == ASSUME IInv, NextDay PROVE IInv'
<1>1. /\ today < MaxDay /\ today' = today + 1 /\ inFlight = {}
      /\ UNCHANGED <<closed, dpdRecord, stageHistory, override, inFlight>>
  BY DEF NextDay
<1>2. \A p \in closed' : firstOfNextMonth(p) <= today'
  BY <1>1, Calendar DEF IInv, Typed
<1>3. Typed'
  BY <1>1, <1>2, Calendar DEF IInv, Typed
<1>4. OverridesSigned'
  BY <1>1 DEF IInv, OverridesSigned, Signed, HasRow
<1>5. HistoryOK'
  BY <1>1 DEF IInv, HistoryOK, Backed, Known, Earned, SicrRows, RowsOf
<1> QED BY <1>1, <1>3, <1>4, <1>5 DEF IInv

LEMMA HardCloseStep ==
    ASSUME IInv, NEW p \in Bulan, HardClose(p)
    PROVE  IInv'
<1>1. /\ firstOfNextMonth(p) <= today /\ closed' = closed \cup {p}
      /\ UNCHANGED <<today, dpdRecord, stageHistory, override, inFlight>>
  BY DEF HardClose
<1>2. \A i, t : Earned(i, t) => Earned(i, t)'
  BY <1>1, EarnedStays DEF IInv
<1>3. Typed'
  BY <1>1 DEF IInv, Typed, firstOfNextMonth
<1>4. OverridesSigned'
  BY <1>1 DEF IInv, OverridesSigned, Signed, HasRow
<1>5. HistoryOK'
  BY <1>1, <1>2 DEF IInv, HistoryOK, Backed, Known
<1>6. \A r \in inFlight' : ReqOK(r)'
  BY <1>1, RequestStays DEF IInv
<1> QED BY <1>3, <1>4, <1>5, <1>6 DEF IInv

LEMMA RecordDPDStep ==
    ASSUME IInv, NEW i \in Instrumen, NEW p \in Bulan, NEW d \in Overdue, RecordDPD(i, p, d)
    PROVE  IInv'
<1>1. UNCHANGED <<today, closed, stageHistory, override, inFlight>>
  BY DEF RecordDPD
<1>2. \A r \in dpdRecord' : r.instrumen \in Instrumen /\ r.periode \in Bulan /\ r.dpd \in Overdue
  BY DEF RecordDPD, UpsertDPD, IInv, Typed
<1>3. Typed'
  BY <1>1, <1>2 DEF IInv, Typed
<1>4. OverridesSigned'
  BY <1>1 DEF IInv, OverridesSigned, Signed, HasRow
<1>5. HistoryOK'
  BY <1>1 DEF IInv, HistoryOK, Backed, Known, Earned, SicrRows, RowsOf
<1>6. \A r \in inFlight' : ReqOK(r)'
  BY <1>1, RequestStays DEF IInv
<1> QED BY <1>3, <1>4, <1>5, <1>6 DEF IInv

LEMMA IdleStep == ASSUME IInv, UNCHANGED stagingVars PROVE IInv'
<1>1. UNCHANGED <<today, closed, dpdRecord, stageHistory, override, inFlight>>
  BY DEF stagingVars
<1>2. Typed' /\ OverridesSigned' /\ HistoryOK'
  BY <1>1 DEF IInv, Typed, OverridesSigned, Signed, HasRow, HistoryOK, Backed, Known, Earned, SicrRows, RowsOf
<1>3. \A r \in inFlight' : ReqOK(r)'
  BY <1>1, RequestStays DEF IInv
<1> QED BY <1>2, <1>3 DEF IInv

(* Every step of every request, task and calendar day keeps the invariant.  *)
THEOREM Inductive == IInv /\ [StagingNext]_stagingVars => IInv'
<1> SUFFICES ASSUME IInv, [StagingNext]_stagingVars PROVE IInv'
  OBVIOUS
<1>1. CASE StageNext
  <2>1. CASE EvaluateHandler
    BY <2>1, EvaluateStep DEF EvaluateHandler
  <2>2. CASE HandleCureAssessmentBatch
    BY <2>2, CureStep DEF HandleCureAssessmentBatch, ListStage2Instruments
  <2> QED BY <1>1, <2>1, <2>2, RecordDPDStep, NextDayStep, HardCloseStep DEF StageNext
<1>2. CASE OverrideNext
  BY <1>2, SubmitStep, SignStep, ExpiryStep DEF OverrideNext
<1>3. ASSUME NEW r \in inFlight, CommitNext(r) PROVE IInv'
  BY <1>3, EvaluateCommitStep, CureCommitStep, SubmitCommitStep, ReviewCommitStep, AlcoCommitStep,
     KomiteCommitStep, RejectCommitStep, MarkExpiredStep DEF CommitNext
<1>4. CASE UNCHANGED stagingVars
  BY <1>4, IdleStep
<1> QED BY <1>1, <1>2, <1>3, <1>4 DEF StagingNext

\* Proposals, history and requests agree on every day.
THEOREM Invariance == StagingSpec => []IInv
BY Initially, Inductive, PTL DEF StagingSpec

-----------------------------------------------------------------------------
(* The tables hold what the schema allows.                                  *)
THEOREM TypeCorrect == StagingSpec => []StagingTypeOK
<1>1. IInv => StagingTypeOK
  BY DEF IInv, Typed, OverridesSigned, Signed, StagingTypeOK
<1> QED BY <1>1, Invariance, PTL

(* Nobody signs a proposal twice, whoever crosses whom: as many signatures  *)
(* as signers (service.go ReviewOverride to ApproveKomite).                 *)
THEOREM Distinct == StagingSpec => []DistinctSigners
<1>1. ASSUME IInv PROVE DistinctSigners
  <2> SUFFICES ASSUME NEW id \in Overrides, override[id] # NoOverride
               PROVE  LET o == override[id]
                      IN Cardinality({k \in {"maker", "reviewer", "alco", "komite"} : o[k] # NoOne}) =
                         Cardinality({o.maker, o.reviewer, o.alco, o.komite} \ {NoOne})
    BY DEF DistinctSigners
  <2> DEFINE o == override[id]
             Keys == {k \in {"maker", "reviewer", "alco", "komite"} : o[k] # NoOne}
             People == {o.maker, o.reviewer, o.alco, o.komite} \ {NoOne}
             f == [k \in Keys |-> o[k]]
  <2>1. SodConstraints(o) /\ o \in OverrideProposal
    BY <1>1, KnownSigned DEF Known, Signed
  <2>2. f \in Bijection(Keys, People)
    <3>1. \A k \in Keys : f[k] \in People
      BY <2>1 DEF OverrideProposal
    <3>2. \A k, l \in Keys : f[k] = f[l] => k = l
      BY <2>1 DEF SodConstraints
    <3>3. \A u \in People : \E k \in Keys : f[k] = u
      OBVIOUS
    <3> HIDE DEF Keys, People
    <3> QED BY <3>1, <3>2, <3>3, Fun_IsBij
  <2>3. IsFiniteSet(Keys)
    <3>1. IsFiniteSet({"maker", "reviewer", "alco", "komite"})
      <4>1. IsFiniteSet({"maker"} \cup {"reviewer"}) /\ IsFiniteSet({"alco"} \cup {"komite"})
        BY FS_Singleton, FS_Union
      <4>2. IsFiniteSet(({"maker"} \cup {"reviewer"}) \cup ({"alco"} \cup {"komite"}))
        BY <4>1, FS_Union
      <4>3. {"maker", "reviewer", "alco", "komite"} = ({"maker"} \cup {"reviewer"}) \cup ({"alco"} \cup {"komite"})
        OBVIOUS
      <4> QED BY <4>2, <4>3
    <3> QED BY <3>1, FS_Subset
  <2> HIDE DEF Keys, People, f
  <2>4. Cardinality(Keys) = Cardinality(People)
    BY <2>2, <2>3, FS_Bijection DEF ExistsBijection
  <2> QED BY <2>4 DEF Keys, People
<1> QED BY <1>1, Invariance, PTL

(* A stage is overridden by a fully signed proposal and by nothing less     *)
(* (service.go activateOverride).                                           *)
THEOREM FullySigned == StagingSpec => []OverridesBacked
<1>1. ASSUME IInv PROVE OverridesBacked
  <2>1. \A row \in stageHistory : row.trigger = "MANUAL_OVERRIDE" => Backed(row)
    BY <1>1 DEF IInv, HistoryOK
  <2>2. ASSUME NEW id \in Overrides, override[id].status \in {"ACTIVE", "EXPIRED"} PROVE HasRow(id)
    BY <1>1, <2>2, KnownSigned DEF Known, Signed, NoOverride
  <2> QED BY <2>1, <2>2 DEF OverridesBacked, Backed, HasRow
<1> QED BY <1>1, Invariance, PTL

(* Three closed months without a SICR row stand behind every cure           *)
(* (service.go AssessCure).                                                 *)
THEOREM CuresAreEarned == StagingSpec => []CureEarned
<1>1. IInv => CureEarned
  BY DEF IInv, HistoryOK, Earned, CureEarned
<1> QED BY <1>1, Invariance, PTL
=============================================================================
