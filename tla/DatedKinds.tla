----------------------------- MODULE DatedKinds -----------------------------
(***************************************************************************)
(* The parameters of the expected credit loss: scenario weights, PD, LGD   *)
(* and LPS coverage with a period of validity, the forward-looking         *)
(* multipliers of an accounting period, and the ratings of a counterparty. *)
(* For each kind, what its service checks outside the transaction, the     *)
(* constraint its INSERT meets, and the row after its UPDATEs.             *)
(***************************************************************************)
EXTENDS MasterRows, Functions

CONSTANTS
    Skenarios,  \* bobotskenario.AllSkenarios
    SumTarget   \* what the weights of a period add up to

ASSUME SkenariosAssumption == Skenarios \subseteq Nat

-----------------------------------------------------------------------------
(* mst.bobot_skenario: key is the scenario, val its weight.                *)

BobotValid(b) ==
    WellFormed(b, {"val", "from", "to"}) /\ b.key \in Skenarios /\ b.from <= b.to
BobotPatchValid(p) ==
    WellFormed(p, {"val", "from", "to"}) /\ p.key \in Skenarios \cup {NotGiven}
BobotDuplicates(b, others) ==
    {i \in LiveRows("bobot_skenario") \cap others :
        /\ row[i].body.key = b.key
        /\ row[i].body.from = b.from /\ row[i].body.to = b.to}
BobotOverlaps(b, others) ==
    {i \in LiveRows("bobot_skenario") \cap others :
        row[i].body.key = b.key /\ MeetHalfOpen(row[i].body, b)}

BobotCreate(b) ==
    BobotValid(b) /\ BobotDuplicates(b, Ids) = {} /\ BobotOverlaps(b, Ids) = {}

\* A patch is not checked for the order of the merged dates.
BobotUpdate(i, p) ==
    LET b == Merge(row[i].body, p) IN
    /\ BobotPatchValid(p)
    /\ row[i].st # "APPROVED"
    /\ BobotDuplicates(b, Ids \ {i}) = {} /\ BobotOverlaps(b, Ids \ {i}) = {}

BobotStore(i, p) == Patched(i, p, {"key", "from", "to", "val"})
BobotErase(i) == Erased(i)

\* SeedDefault looks only at how many rows start that day without an end.
CountByPeriod(from) ==
    {i \in LiveRows("bobot_skenario") : row[i].body.from = from /\ row[i].body.to = Open}
BobotSeed(from) == Cardinality(CountByPeriod(from)) < Cardinality(Skenarios)

Weight(S) == SumFunctionOnSet([i \in S |-> row[i].body.val], S)
\* Siblings of the same period whose status is not REJECTED.
Siblings(b, i) ==
    {j \in LiveRows("bobot_skenario") \ {i} :
        row[j].body.from = b.from /\ row[j].body.to = b.to /\ row[j].st # "REJECTED"}
BobotSum(b, i) == Weight(Siblings(b, i))

\* Mutant of BobotHook: the sum is taken of the siblings only.
BobotHookSiblings(i, b, to, second) ==
    to = "APPROVED" /\ second => BobotSum(b, i) <= SumTarget
\* The hook: b is the row as read outside the transaction; the sum is taken
\* inside it, and only for a second approval.
BobotHook(i, b, to, second) ==
    to = "APPROVED" /\ second => BobotSum(b, i) + b.val = SumTarget
BobotStatus(i, to) == Moved(i, to)

-----------------------------------------------------------------------------
(* mst.pd_pefindo: key is the rating; val, the curve, is 1 if it is        *)
(* monotonic and in range.                                                 *)

PdMonotonic(b) == b.val = 1
\* Only APPROVED rows stand in the way.
PdOverlaps(b, others) ==
    {i \in Approved("pd_pefindo") \cap others :
        row[i].body.key = b.key /\ Meet(row[i].body, b)}
PdValid(b) ==
    WellFormed(b, {"val", "from", "to"}) /\ b.from <= b.to
PdPatchValid(p) == WellFormed(p, {"val", "from", "to"})
PdCreate(b) == PdValid(b) /\ PdMonotonic(b) /\ PdOverlaps(b, Ids) = {}
\* The merged row is checked for the curve and for overlaps.
PdUpdate(i, p) ==
    LET b == Merge(row[i].body, p) IN
    /\ PdPatchValid(p)
    /\ row[i].st # "APPROVED"
    /\ PdMonotonic(b)
    /\ PdOverlaps(b, Ids \ {i}) = {}
PdDelete(i) == row[i].st # "APPROVED"
PdStore(i, p) == Patched(i, p, {"from", "to", "val"})
PdErase(i) == Erased(i)
\* Mutant of PdPrior: the approval does not look for overlaps again.
PdPriorNone(i, to) == TRUE
\* AssertNoApprovedOverlapForRating, by the hook, outside its transaction; a
\* deleted row is not checked.
PdPrior(i, to) ==
    to = "APPROVED" /\ Live(i) => PdOverlaps(row[i].body, Ids \ {i}) = {}
PdStatus(i, to) == Moved(i, to)

\* What an upload job makes drafts of: the overlaps are not looked at, and
\* the dates are left to the type of their columns.
PdUploaded(bodies) == {b \in bodies : PdMonotonic(b) /\ WellFormed(b, {"from", "to"})}

\* What the ECL engine takes for the PD of a rating on a day (ecl/helpers):
\* it does not ask whether the row was deleted.
PdInForce(rating, day) ==
    {i \in Rows("pd_pefindo") :
        /\ row[i].st = "APPROVED" /\ row[i].body.key = rating
        /\ row[i].body.from <= day /\ day <= row[i].body.to}

-----------------------------------------------------------------------------
(* mst.lgd_basel: key is the exposure type.  No hook is registered.        *)

LgdValid(b) == WellFormed(b, {"key", "val", "from", "to"}) /\ b.from <= b.to
LgdPatchValid(p) == WellFormed(p, {"key", "val", "from", "to"})
LgdOverlaps(b, others) ==
    {i \in LiveRows("lgd_basel") \cap others :
        row[i].body.key = b.key /\ MeetHalfOpen(row[i].body, b)}
LgdCreate(b) == LgdValid(b) /\ LgdOverlaps(b, Ids) = {}
LgdUpdate(i, p) ==
    /\ LgdPatchValid(p)
    /\ row[i].st # "APPROVED"
    /\ LgdOverlaps(Merge(row[i].body, p), Ids \ {i}) = {}
LgdStore(i, p) == Patched(i, p, {"key", "from", "to", "val"})
LgdErase(i) == Erased(i)

-----------------------------------------------------------------------------
(* mst.lps_coverage: one amount for everyone, val; no key.                 *)

LpsOverlaps(b, others) ==
    {i \in Approved("lps_coverage") \cap others : Meet(row[i].body, b)}
LpsValid(b) ==
    WellFormed(b, {"val", "from", "to"}) /\ b.val > 0 /\ b.from <= b.to
LpsPatchValid(p) == WellFormed(p, {"from", "to"})
LpsCreate(b) == LpsValid(b) /\ LpsOverlaps(b, Ids) = {}
\* A patch can also clear the end date (to = Open).
LpsUpdate(i, p) ==
    LET b == Merge(row[i].body, p) IN
    /\ LpsPatchValid(p)
    /\ IsEditable(i)
    /\ b.from <= b.to
    /\ LpsOverlaps(b, Ids \ {i}) = {}
    /\ b.val \notin {0, Malformed}
LpsStore(i, p) == Patched(i, p, {"from", "to", "val"})
LpsErase(i) == Erased(i)
\* The UPDATE of the hook must match a row that is not deleted.
LpsHook(i) == ~row[i].del
LpsStatus(i, to) == Moved(i, to)

-----------------------------------------------------------------------------
(* mst.impact_pd: key is the accounting period, val the multiplier.        *)

ImpactPdInRange(v) == v \in 1..2
ImpactPdValid(b) == b.key # Malformed /\ ImpactPdInRange(b.val)
ImpactPdPatchValid(p) == p.val = NotGiven \/ ImpactPdInRange(p.val)
ImpactPdCreate(b) ==
    /\ ImpactPdValid(b)
    /\ \A i \in LiveRows("impact_pd") : row[i].body.key = b.key => row[i].st = "REJECTED"
\* UNIQUE (periode_id), deleted rows included.
ImpactPdInsert(b) == \A i \in Rows("impact_pd") : row[i].body.key # b.key
ImpactPdUpdate(i, p) == ImpactPdPatchValid(p) /\ IsEditable(i)
ImpactPdStore(i, p) == Patched(i, p, {"val"})
ImpactPdDelete(i) == IsEditable(i)
ImpactPdErase(i) == ErasedBumped(i)
\* The hook counts other approved rows of the period; a deleted row passes.
ImpactPdHook(i, live, to) ==
    to = "APPROVED" /\ live =>
        \A j \in Approved("impact_pd") \ {i} : row[j].body.key # row[i].body.key
ImpactPdStatus(i, to) == Moved(i, to)

-----------------------------------------------------------------------------
(* mst.impact_mev_pd: key is the period and the scenario together.         *)

ImpactMevPositive(v) == v > 0 /\ v # Malformed
ImpactMevValid(b) == b.key # Malformed /\ ImpactMevPositive(b.val)
ImpactMevPatchValid(p) == p.val = NotGiven \/ ImpactMevPositive(p.val)
ImpactMevCreate(b) ==
    /\ ImpactMevValid(b)
    /\ \A i \in LiveRows("impact_mev_pd") :
          row[i].body.key = b.key => row[i].st = "REJECTED"
\* UNIQUE (periode_id, skenario), deleted rows included.
ImpactMevInsert(b) == \A i \in Rows("impact_mev_pd") : row[i].body.key # b.key
ImpactMevUpdate(i, p) == ImpactMevPatchValid(p) /\ IsEditable(i)
ImpactMevStore(i, p) == Patched(i, p, {"val"})
ImpactMevDelete(i) == IsEditable(i)
ImpactMevErase(i) == ErasedBumped(i)
ImpactMevHook(i, live, to) ==
    to = "APPROVED" /\ live =>
        \A j \in Approved("impact_mev_pd") \ {i} : row[j].body.key # row[i].body.key
ImpactMevStatus(i, to) == Moved(i, to)

-----------------------------------------------------------------------------
(* mst.rating_history_counterparty: key is the code, ref the counterparty, *)
(* from the day the rating starts, to the day it ended, val the rating.    *)

RatingValid(b) == WellFormed(b, {"key", "from", "val"})
RatingPatchValid(p) == WellFormed(p, {"from"})
RatingCreate(b) == RatingValid(b) /\ b.to = Open
\* UNIQUE (code), and uq_rating_aktif: one row without an end per
\* counterparty, whatever its status, deleted or not.  The counterparty must
\* be a row, deleted or not.
RatingInsert(b) ==
    /\ b.ref \in Rows("counterparty")
    /\ \A i \in Rows("rating_history") :
          /\ row[i].body.key # b.key
          /\ row[i].body.ref = b.ref => row[i].body.to # Open
RatingUpdate(i, p) == RatingPatchValid(p) /\ row[i].st # "APPROVED"
RatingStore(i, p) == Patched(i, p, {"val"})
RatingDelete(i) == row[i].st # "APPROVED"
RatingErase(i) == ErasedBumped(i)
RatingStatus(i, to) == Moved(i, to)
\* GetActiveByCounterparty, by the hook, outside its transaction.
RatingPrior(i) ==
    {j \in Approved("rating_history") :
        row[j].body.ref = row[i].body.ref /\ row[j].body.to = Open} # {}
RatingFlags(r) == [r EXCEPT !.ver = @ + 1]
RatingClosed(r, day) == [r EXCEPT !.body.to = day - 1, !.ver = @ + 1]
\* Mutant of RatingApproved: the counterparty keeps its cached rating.
RatingApprovedUncached(i, prior) ==
    [row EXCEPT ![i] = RatingFlags(RatingStatus(i, "APPROVED"))]
\* After the status: the flags of the approved rating, the end of the active
\* one (which by then is the approved rating itself, too), and the rating
\* cached on the counterparty.
RatingApproved(i, prior) ==
    LET b == row[i].body
        flagged == [row EXCEPT ![i] = RatingFlags(RatingStatus(i, "APPROVED"))]
        closes(j) == /\ prior
                     /\ kind[j] = "rating_history" /\ flagged[j].body.ref = b.ref
                     /\ flagged[j].body.to = Open /\ ~flagged[j].del
                     /\ flagged[j].st = "APPROVED"
    IN  [j \in Ids |->
            IF closes(j) THEN RatingClosed(flagged[j], b.from)
            ELSE IF j = b.ref /\ ~flagged[j].del
                 THEN [flagged[j] EXCEPT !.body.val = b.val, !.ver = @ + 1]
            ELSE flagged[j]]

=============================================================================
