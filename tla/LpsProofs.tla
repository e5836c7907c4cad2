------------------------------ MODULE LpsProofs ------------------------------
(***************************************************************************)
(* What the exclusion proposals of the deposit guarantee keep for any      *)
(* number of users, deposits, proposals and requests.                      *)
(*                                                                         *)
(* The argument: a request in flight names a proposal that exists; one     *)
(* that expires it was built when its last period was over, and neither    *)
(* the date nor the calendar goes back.  The guarantee is followed deposit *)
(* by deposit: what the deposits so far were given and what is left make   *)
(* up the guarantee, and nothing is left once their exposure exceeds it.   *)
(***************************************************************************)
EXTENDS Lps, TLAPS, FiniteSetTheorems, Sums

-----------------------------------------------------------------------------
(* What a request in flight carries.                                        *)
RequestOK(r) ==
    \/ /\ r.op = "submit" /\ r.instrumen \in Deposito /\ r.actor \in LpsUsers
       /\ r.dari \in Tanggal /\ r.sampai \in Tanggal
    \/ /\ r.op = "approve" /\ r.id \in LpsIds /\ r.actor \in LpsUsers
       /\ exclusion[r.id] # NoExclusion
    \/ /\ r.op = "reject" /\ r.id \in LpsIds /\ exclusion[r.id] # NoExclusion
    \/ /\ r.op = "expire" /\ r.id \in LpsIds /\ exclusion[r.id] # NoExclusion
       /\ exclusion[r.id].sampai < hari

IInv ==
    /\ hari \in Tanggal /\ DOMAIN exclusion = LpsIds
    /\ IsFiniteSet(lpsInFlight) /\ Cardinality(lpsInFlight) <= MaxLpsInFlight
    /\ \A id \in LpsIds : exclusion[id] = NoExclusion \/ exclusion[id] \in LPSExclusionOverride
    /\ \A r \in lpsInFlight : RequestOK(r)

(* What a step may do to one proposal.                                      *)
Decides(id) ==
    \/ exclusion'[id] = exclusion[id]
    \/ exclusion[id] = NoExclusion /\ exclusion'[id].status = "PENDING_APPROVAL"
    \/ exclusion[id].status = "PENDING_APPROVAL"
       /\ exclusion'[id].status \in {"APPROVED_ACTIVE", "REJECTED"}
    \/ exclusion[id].status = "APPROVED_ACTIVE" /\ exclusion'[id].status = "EXPIRED"
       /\ exclusion[id].sampai < hari

-----------------------------------------------------------------------------
\* No proposal and no request is the invariant's first state.
THEOREM Initially == LpsInit => IInv
BY FS_EmptySet, LpsAssumption DEF LpsInit, IInv

(* A new request changes no proposal.                                       *)
LEMMA ServingStep ==
    ASSUME IInv, NEW r, RequestOK(r), LpsServing(r)
    PROVE  IInv'
<1>1. lpsInFlight' = lpsInFlight \cup {r} /\ hari' = hari /\ exclusion' = exclusion
  BY DEF LpsServing
<1>2. IsFiniteSet(lpsInFlight') /\ Cardinality(lpsInFlight') = Cardinality(lpsInFlight) + 1
      /\ Cardinality(lpsInFlight) \in Nat /\ Cardinality(lpsInFlight) < MaxLpsInFlight
  BY <1>1, FS_AddElement, FS_CardinalityType DEF IInv, LpsServing
<1>3. \A q \in lpsInFlight' : RequestOK(q)'
  BY <1>1 DEF IInv, RequestOK
<1> QED BY <1>1, <1>2, <1>3, LpsAssumption DEF IInv

(* A transaction that takes its request out and leaves the others' facts.   *)
LEMMA ServedStep ==
    ASSUME IInv, NEW r \in lpsInFlight, lpsInFlight' = lpsInFlight \ {r}, hari' = hari,
           NEW id \in LpsIds, NEW o \in LPSExclusionOverride,
           exclusion' = [exclusion EXCEPT ![id] = o],
           exclusion[id] # NoExclusion => o.sampai = exclusion[id].sampai
    PROVE  IInv'
<1>1. IsFiniteSet(lpsInFlight') /\ Cardinality(lpsInFlight') <= MaxLpsInFlight
  <2>1. Cardinality(lpsInFlight) \in Nat /\ IsFiniteSet(lpsInFlight')
        /\ Cardinality(lpsInFlight') = Cardinality(lpsInFlight) - 1
    BY FS_RemoveElement, FS_CardinalityType DEF IInv
  <2> QED BY <2>1, LpsAssumption DEF IInv
<1>2. o # NoExclusion
  BY DEF LPSExclusionOverride, NoExclusion, WorkflowStatus
<1>3. exclusion'[id] = o /\ \A other \in LpsIds \ {id} : exclusion'[other] = exclusion[other]
  BY DEF IInv
<1>4. \A q \in lpsInFlight' : RequestOK(q)'
  BY <1>2, <1>3 DEF IInv, RequestOK
<1> QED BY <1>1, <1>3, <1>4 DEF IInv

LEMMA CreateStep ==
    ASSUME IInv, NEW r \in lpsInFlight, lpsInFlight' = lpsInFlight \ {r}, hari' = hari,
           CreateOverride(r)
    PROVE  IInv' /\ \A id \in LpsIds : Decides(id)
<1> DEFINE o == [status |-> "PENDING_APPROVAL", instrumen |-> r.instrumen, dari |-> r.dari,
                 sampai |-> r.sampai, maker |-> r.actor, approver |-> Tiada]
<1>1. PICK id \in LpsIds : exclusion[id] = NoExclusion /\ exclusion' = [exclusion EXCEPT ![id] = o]
  BY DEF CreateOverride
<1>2. o \in LPSExclusionOverride
  BY DEF CreateOverride, IInv, RequestOK, LPSExclusionOverride, WorkflowStatus
<1>3. o.status = "PENDING_APPROVAL"
  OBVIOUS
<1> HIDE DEF o
<1>4. IInv'
  BY <1>1, <1>2, ServedStep
<1>5. \A other \in LpsIds : Decides(other)
  BY <1>1, <1>3 DEF IInv, Decides
<1> QED BY <1>4, <1>5

(* The transactions guarded by the status they expect.                      *)
LEMMA GuardedStep ==
    ASSUME IInv, NEW r \in lpsInFlight, lpsInFlight' = lpsInFlight \ {r}, hari' = hari,
           NEW id \in LpsIds, NEW status \in {"PENDING_APPROVAL", "APPROVED_ACTIVE"},
           NEW next \in WorkflowStatus, NEW who \in LpsUsers \cup {Tiada},
           Guarded(id, status, [exclusion[id] EXCEPT !.status = next, !.approver = who]),
           status = "PENDING_APPROVAL" => next \in {"APPROVED_ACTIVE", "REJECTED"},
           status = "APPROVED_ACTIVE" => next = "EXPIRED" /\ exclusion[id].sampai < hari
    PROVE  IInv' /\ \A other \in LpsIds : Decides(other)
<1> DEFINE o == [exclusion[id] EXCEPT !.status = next, !.approver = who]
<1>1. CASE exclusion[id].status = status
  <2>1. exclusion[id] \in LPSExclusionOverride
    BY <1>1 DEF IInv, NoExclusion
  <2>2. o \in LPSExclusionOverride /\ o.sampai = exclusion[id].sampai /\ o.status = next
    BY <2>1 DEF LPSExclusionOverride
  <2>3. exclusion' = [exclusion EXCEPT ![id] = o]
    BY <1>1 DEF Guarded
  <2> HIDE DEF o
  <2>4. IInv'
    BY <2>2, <2>3, ServedStep
  <2>5. \A other \in LpsIds : Decides(other)
    BY <1>1, <2>2, <2>3 DEF IInv, Decides
  <2> QED BY <2>4, <2>5
<1>2. CASE exclusion[id].status # status
  <2>1. exclusion' = exclusion
    BY <1>2 DEF Guarded
  <2>2. \A other \in LpsIds : Decides(other)
    BY <2>1 DEF Decides
  <2>3. IsFiniteSet(lpsInFlight') /\ Cardinality(lpsInFlight') <= MaxLpsInFlight
    <3>1. Cardinality(lpsInFlight) \in Nat /\ IsFiniteSet(lpsInFlight')
          /\ Cardinality(lpsInFlight') = Cardinality(lpsInFlight) - 1
      BY FS_RemoveElement, FS_CardinalityType DEF IInv
    <3> QED BY <3>1, LpsAssumption DEF IInv
  <2> QED BY <2>1, <2>2, <2>3 DEF IInv, RequestOK
<1> QED BY <1>1, <1>2

LEMMA TransactionStep ==
    ASSUME IInv, NEW r \in lpsInFlight, LpsTx(r)
    PROVE  IInv' /\ \A id \in LpsIds : Decides(id)
<1>1. lpsInFlight' = lpsInFlight \ {r} /\ hari' = hari /\ RequestOK(r)
  BY DEF LpsTx, IInv
<1>2. CASE CreateOverride(r)
  BY <1>1, <1>2, CreateStep
<1>3. CASE ApproveTx(r)
  <2>1. /\ r.id \in LpsIds /\ r.actor \in LpsUsers
        /\ Guarded(r.id, "PENDING_APPROVAL",
                   [exclusion[r.id] EXCEPT !.status = "APPROVED_ACTIVE", !.approver = r.actor])
    BY <1>1, <1>3 DEF ApproveTx, Signed, RequestOK
  <2>2. "APPROVED_ACTIVE" \in WorkflowStatus
    BY DEF WorkflowStatus
  <2> QED BY <1>1, <2>1, <2>2, GuardedStep
<1>4. CASE RejectTx(r)
  <2> DEFINE who == exclusion[r.id].approver
  <2>1. r.id \in LpsIds /\ exclusion[r.id] \in LPSExclusionOverride
    BY <1>1, <1>4 DEF RejectTx, RequestOK, IInv
  <2>2. /\ who \in LpsUsers \cup {Tiada}
        /\ [exclusion[r.id] EXCEPT !.status = "REJECTED"]
             = [exclusion[r.id] EXCEPT !.status = "REJECTED", !.approver = who]
    BY <2>1 DEF LPSExclusionOverride
  <2>3. Guarded(r.id, "PENDING_APPROVAL",
                [exclusion[r.id] EXCEPT !.status = "REJECTED", !.approver = who])
    BY <1>4, <2>2 DEF RejectTx
  <2>4. "REJECTED" \in WorkflowStatus
    BY DEF WorkflowStatus
  <2> HIDE DEF who
  <2> QED BY <1>1, <2>1, <2>2, <2>3, <2>4, GuardedStep
<1>5. CASE expireOne(r)
  <2> DEFINE who == exclusion[r.id].approver
  <2>1. r.id \in LpsIds /\ exclusion[r.id] \in LPSExclusionOverride /\ exclusion[r.id].sampai < hari
    BY <1>1, <1>5 DEF expireOne, RequestOK, IInv
  <2>2. /\ who \in LpsUsers \cup {Tiada}
        /\ [exclusion[r.id] EXCEPT !.status = "EXPIRED"]
             = [exclusion[r.id] EXCEPT !.status = "EXPIRED", !.approver = who]
    BY <2>1 DEF LPSExclusionOverride
  <2>3. Guarded(r.id, "APPROVED_ACTIVE",
                [exclusion[r.id] EXCEPT !.status = "EXPIRED", !.approver = who])
    BY <1>5, <2>2 DEF expireOne
  <2>4. "EXPIRED" \in WorkflowStatus
    BY DEF WorkflowStatus
  <2> HIDE DEF who
  <2> QED BY <1>1, <2>1, <2>2, <2>3, <2>4, GuardedStep
<1> QED BY <1>2, <1>3, <1>4, <1>5 DEF LpsTx

(* The steps that only put a request into flight.                           *)
LEMMA RequestStep ==
    ASSUME IInv, NEW u \in LpsUsers,
           \/ \E i \in Deposito \cup BukanDeposito, n \in ReasonLengths, from, to \in Periode :
                 LpsSubmit(u, i, n, from, to)
           \/ \E id \in LpsIds : LpsReject(id, u) \/ \E mfa \in BOOLEAN : LpsApprove(id, u, mfa)
    PROVE  IInv' /\ exclusion' = exclusion
<1>1. ASSUME NEW i, NEW n, NEW from \in Periode, NEW to \in Periode, LpsSubmit(u, i, n, from, to)
      PROVE  IInv' /\ exclusion' = exclusion
  <2> DEFINE r == [op |-> "submit", instrumen |-> i, dari |-> from[1], sampai |-> to[2], actor |-> u]
  <2>1. i \in Deposito /\ LpsServing(r) /\ from[1] \in Tanggal /\ to[2] \in Tanggal
    BY <1>1, LpsAssumption DEF LpsSubmit, Submit
  <2>2. RequestOK(r)
    BY <2>1 DEF RequestOK
  <2> HIDE DEF r
  <2> QED BY <2>1, <2>2, ServingStep DEF LpsServing
<1>2. ASSUME NEW id \in LpsIds, LpsReject(id, u)
      PROVE  IInv' /\ exclusion' = exclusion
  <2>1. LpsServing([op |-> "reject", id |-> id, actor |-> u]) /\ exclusion[id] # NoExclusion
    BY <1>2 DEF LpsReject, RejectExclusion, NoExclusion
  <2>2. RequestOK([op |-> "reject", id |-> id, actor |-> u])
    BY <2>1 DEF RequestOK
  <2> QED BY <2>1, <2>2, ServingStep DEF LpsServing
<1>3. ASSUME NEW id \in LpsIds, NEW mfa, LpsApprove(id, u, mfa)
      PROVE  IInv' /\ exclusion' = exclusion
  <2>1. LpsServing([op |-> "approve", id |-> id, actor |-> u]) /\ exclusion[id] # NoExclusion
    BY <1>3 DEF LpsApprove, ApproveOverride, NoExclusion
  <2>2. RequestOK([op |-> "approve", id |-> id, actor |-> u])
    BY <2>1 DEF RequestOK
  <2> QED BY <2>1, <2>2, ServingStep DEF LpsServing
<1> QED BY <1>1, <1>2, <1>3

LEMMA ExpiryRequestStep ==
    ASSUME IInv, NEW id \in LpsIds, HandleExpiryCheck(id)
    PROVE  IInv' /\ exclusion' = exclusion
<1>1. LpsServing([op |-> "expire", id |-> id])
      /\ exclusion[id].status = "APPROVED_ACTIVE" /\ exclusion[id].sampai < hari
  BY DEF HandleExpiryCheck, ListExpiredApprovedActive
<1>2. RequestOK([op |-> "expire", id |-> id])
  BY <1>1 DEF RequestOK, NoExclusion
<1> QED BY <1>1, <1>2, ServingStep DEF LpsServing

LEMMA Inductive == IInv /\ [LpsNext]_lpsVars => IInv' /\ \A id \in LpsIds : Decides(id)
<1> SUFFICES ASSUME IInv, [LpsNext]_lpsVars PROVE IInv' /\ \A id \in LpsIds : Decides(id)
  OBVIOUS
<1>1. exclusion' = exclusion => \A id \in LpsIds : Decides(id)
  BY DEF Decides
<1>2. CASE UNCHANGED lpsVars
  BY <1>1, <1>2 DEF lpsVars, IInv, RequestOK
<1>3. CASE Besok
  <2>1. hari' \in Tanggal /\ hari' = hari + 1 /\ exclusion' = exclusion /\ lpsInFlight' = lpsInFlight
    BY <1>3 DEF Besok
  <2>2. ASSUME NEW r \in lpsInFlight PROVE RequestOK(r)'
    <3>1. RequestOK(r)
      BY DEF IInv
    <3>2. r.op = "expire" /\ r.id \in LpsIds /\ exclusion[r.id] # NoExclusion =>
            exclusion[r.id].sampai \in Nat
      BY LpsAssumption DEF IInv, LPSExclusionOverride
    <3>3. hari \in Nat
      BY LpsAssumption DEF IInv
    <3> QED BY <2>1, <3>1, <3>2, <3>3 DEF RequestOK
  <2> QED BY <1>1, <2>1, <2>2 DEF IInv
<1>4. CASE LpsNext /\ ~Besok
  BY <1>1, <1>4, RequestStep, ExpiryRequestStep, TransactionStep DEF LpsNext
<1> QED BY <1>2, <1>3, <1>4

-----------------------------------------------------------------------------
(* Proposals and the date have their types; the server's requests are       *)
(* bounded.                                                                 *)
THEOREM TypeCorrect == LpsSpec => []LpsTypeOK
<1>1. IInv => LpsTypeOK
  BY DEF IInv, LpsTypeOK
<1> QED BY <1>1, Initially, Inductive, PTL DEF LpsSpec

(* A decision on a proposal is taken once, whatever crosses it.             *)
THEOREM DecisionsOnce == LpsSpec => DecidedOnce
<1>1. IInv /\ [LpsNext]_lpsVars => IInv'
  BY Inductive
<1>2. IInv /\ [LpsNext]_lpsVars => [\A id \in LpsIds : Decides(id)]_lpsVars
  BY Inductive
<1> QED BY <1>1, <1>2, Initially, PTL DEF LpsSpec, DecidedOnce, Decides

-----------------------------------------------------------------------------
(* The loop of allocatePair.                                                *)
LEMMA SmallerOfTwo ==
    ASSUME NEW x \in Int, NEW y \in Int
    PROVE  Min({x, y}) = IF x <= y THEN x ELSE y
<1>1. \E z \in {x, y} : \A w \in {x, y} : z =< w
  OBVIOUS
<1>2. Min({x, y}) \in {x, y} /\ \A w \in {x, y} : Min({x, y}) =< w
  BY <1>1 DEF Min
<1> QED BY <1>2

LEMMA LastDeposit ==
    Cardinality(Deposito) \in Nat /\ Max(Deposito \cup {0}) = Cardinality(Deposito)
<1> DEFINE n == Cardinality(Deposito)
           S == Deposito \cup {0}
<1>1. n \in Nat /\ Deposito = 1 .. n
  BY LpsAssumption, FS_CardinalityType
<1> HIDE DEF n
<1>2. n \in S /\ \A y \in S : n >= y
  BY <1>1
<1>3. Max(S) \in S /\ \A y \in S : Max(S) >= y
  BY <1>2 DEF Max
<1>4. \A x \in S : x \in Int
  BY <1>1
<1> HIDE DEF S
<1>5. Max(S) = n
  BY <1>2, <1>3, <1>4
<1> QED BY <1>1, <1>5 DEF n, S

(* What is left after one deposit more.                                     *)
Left(rest, d, pair, excluded, ead, amount) ==
    IF d = 0 THEN amount
    ELSE IF d \notin pair \ excluded THEN rest[d - 1]
    ELSE rest[d - 1] - Min({ead[d], rest[d - 1]})

LEMMA RemainingLeft ==
    ASSUME NEW pair, NEW excluded, NEW ead, NEW amount
    PROVE  LET rest == Remaining(pair, excluded, ead, amount) IN
           \A d \in 0 .. Cardinality(Deposito) : rest[d] = Left(rest, d, pair, excluded, ead, amount)
<1> DEFINE n == Cardinality(Deposito)
           L(h, d) == Left(h, d, pair, excluded, ead, amount)
           To(h, m) == h = [d \in 0 .. m |-> L(h, d)]
           Missed == {m \in Nat : ~ \E h : To(h, m)}
<1>1. n \in Nat /\ Max(Deposito \cup {0}) = n
  BY LastDeposit
<1>2. ASSUME NEW g, NEW h, NEW d \in Nat, d # 0 => g[d - 1] = h[d - 1] PROVE L(g, d) = L(h, d)
  BY <1>2 DEF Left
<1>3. \A g, h : L(g, 0) = L(h, 0)
  BY DEF Left
<1>4. Remaining(pair, excluded, ead, amount) = CHOOSE h : To(h, n)
  BY <1>1 DEF Remaining, Left
<1> HIDE DEF n, L
<1>5. Missed = {}
  <2> SUFFICES ASSUME Missed # {} PROVE FALSE
    OBVIOUS
  <2>1. PICK m \in Missed : \A k \in Missed : m <= k
    BY Least
  <2>2. CASE m = 0
    <3> DEFINE h == [d \in 0 .. 0 |-> L(<<>>, d)]
    <3>1. \A d \in 0 .. 0 : L(<<>>, d) = L(h, d)
      BY <1>3
    <3>2. To(h, 0)
      BY <3>1
    <3> QED BY <2>1, <2>2, <3>2
  <2>3. CASE m # 0
    <3>1. m \in Nat /\ m - 1 \in Nat /\ m - 1 \notin Missed
      <4>1. m \in Nat
        BY <2>1
      <4> HIDE DEF Missed
      <4> QED BY <2>1, <2>3, <4>1
    <3>2. PICK g : To(g, m - 1)
      BY <3>1
    <3> DEFINE h == [d \in 0 .. m |-> L(g, d)]
    <3>3. \A d \in 0 .. m - 1 : h[d] = g[d]
      BY <3>1, <3>2
    <3>4. ASSUME NEW d \in 0 .. m PROVE L(g, d) = L(h, d)
      <4> HIDE DEF h
      <4>1. d \in Nat
        BY <3>1
      <4>2. d # 0 => d - 1 \in 0 .. m - 1
        BY <3>1
      <4>3. d # 0 => g[d - 1] = h[d - 1]
        BY <3>3, <4>2
      <4> QED BY <1>2, <4>1, <4>3
    <3>5. To(h, m)
      BY <3>4
    <3> QED BY <2>1, <3>5
  <2> QED BY <2>2, <2>3
<1>6. \E h : To(h, n)
  BY <1>1, <1>5
<1>7. To(CHOOSE h : To(h, n), n)
  BY <1>6
<1>8. To(Remaining(pair, excluded, ead, amount), n)
  BY <1>4, <1>7
<1> QED BY <1>8 DEF n, L

(* What a breakdown of a pair is to be.                                     *)
Spreads(b, pair, amount) ==
    /\ Total(b, pair, "covered") = Min({amount, Eligible(b, pair)})
    /\ \A d, e \in pair : d < e /\ ~b[d].excluded /\ b[d].excess > 0 => b[e].covered = 0
    /\ Total(b, pair, "ead") = Total(b, pair, "covered") + Total(b, pair, "excess")

(* The guarantee spread over a pair: after each deposit what was covered and *)
(* what is left make up the guarantee, and nothing is left once the exposure *)
(* not excluded exceeds it.                                                 *)
LEMMA Spread ==
    ASSUME NEW pair \in SUBSET Deposito, NEW excluded, NEW ead \in [pair -> Nat],
           NEW amount \in Nat, NEW b,
           \A d \in pair : b[d] = allocatePair(pair, excluded, ead, amount)[d]
    PROVE  Spreads(b, pair, amount)
<1> DEFINE n == Cardinality(Deposito)
           R == Remaining(pair, excluded, ead, amount)
           c == [d \in pair |-> b[d].covered]
           ne == [d \in pair |-> IF b[d].excluded THEN 0 ELSE b[d].ead]
           part(d) == pair \cap (1 .. d)
           C(d) == SumFunctionOnSet(c, part(d))
           E(d) == SumFunctionOnSet(ne, part(d))
<1>1. n \in Nat /\ Deposito = 1 .. n /\ IsFiniteSet(pair)
  BY LpsAssumption, FS_CardinalityType, FS_Subset
<1>2. R[0] = amount
  <2>1. 0 \in 0 .. n
    BY <1>1
  <2>2. R[0] = Left(R, 0, pair, excluded, ead, amount)
    BY <2>1, RemainingLeft
  <2> QED BY <2>2 DEF Left
<1>3. ASSUME NEW d \in 1 .. n
      PROVE  R[d] = IF d \notin pair \ excluded THEN R[d - 1] ELSE R[d - 1] - Min({ead[d], R[d - 1]})
  <2>1. d \in 0 .. n /\ d # 0
    BY <1>1
  <2>2. R[d] = Left(R, d, pair, excluded, ead, amount)
    BY <2>1, RemainingLeft
  <2> QED BY <2>1, <2>2 DEF Left
<1>4. ASSUME NEW d \in pair
      PROVE  /\ b[d].ead = ead[d] /\ b[d].excess = ead[d] - b[d].covered
             /\ b[d].excluded = (d \in excluded)
             /\ b[d].covered = IF d \in excluded THEN 0 ELSE Min({ead[d], R[d - 1]})
  <2> DEFINE cov == IF d \in excluded THEN 0 ELSE Min({ead[d], R[d - 1]})
  <2>1. b[d] = [ead |-> ead[d], covered |-> cov, excess |-> ead[d] - cov, excluded |-> d \in excluded]
    BY DEF allocatePair
  <2> HIDE DEF cov, R
  <2>2. b[d].ead = ead[d] /\ b[d].covered = cov /\ b[d].excess = ead[d] - cov
    BY <2>1
  <2>3. b[d].excluded = (d \in excluded)
    BY <2>1
  <2> QED BY <2>2, <2>3 DEF cov
<1> HIDE DEF n, R
<1>5. ASSUME NEW d \in pair PROVE ne[d] = IF d \in excluded THEN 0 ELSE ead[d]
  BY <1>4
<1>6. ASSUME NEW d \in pair PROVE c[d] = IF d \in excluded THEN 0 ELSE Min({ead[d], R[d - 1]})
  BY <1>4
<1>7. \A d \in pair : b[d].covered = c[d]
  OBVIOUS
<1> HIDE DEF c, ne
<1> DEFINE Typed == {d \in Nat : R[d] \in Nat}
<1>8. \A d \in 0 .. n : R[d] \in Nat
  <2>1. 0 \in Typed
    BY <1>2
  <2>2. ASSUME NEW d \in 0 + 1 .. n, d - 1 \in Typed PROVE d \in Typed
    <3>1. d \in 1 .. n /\ R[d - 1] \in Nat
      BY <2>2
    <3>2. CASE d \in pair \ excluded
      <4>1. ead[d] \in Nat /\ R[d] = R[d - 1] - Min({ead[d], R[d - 1]})
        BY <3>1, <3>2, <1>3
      <4>2. Min({ead[d], R[d - 1]}) = IF ead[d] <= R[d - 1] THEN ead[d] ELSE R[d - 1]
        BY <3>1, <4>1, SmallerOfTwo
      <4>3. R[d] \in Nat
        BY <3>1, <4>1, <4>2
      <4> QED BY <3>1, <4>3
    <3>3. CASE d \notin pair \ excluded
      <4>1. R[d] = R[d - 1]
        BY <3>1, <3>3, <1>3
      <4>2. d \in Nat
        BY <3>1, <1>1
      <4> QED BY <3>1, <4>1, <4>2
    <3> QED BY <3>2, <3>3
  <2> HIDE DEF Typed
  <2>3. \A d \in 0 .. n : d \in Typed
    BY <1>1, <2>1, <2>2, Upward
  <2> QED BY <2>3 DEF Typed
<1>9. ASSUME NEW d \in 1 .. n
      PROVE  /\ d \in pair =>
                  /\ c[d] \in Nat /\ ne[d] \in Nat /\ R[d] = R[d - 1] - c[d]
                  /\ c[d] = IF ne[d] <= R[d - 1] THEN ne[d] ELSE R[d - 1]
             /\ d \notin pair => R[d] = R[d - 1]
             /\ R[d] \in Nat /\ R[d - 1] \in Nat
  <2>1. d \in 0 .. n /\ d - 1 \in 0 .. n
    BY <1>1
  <2>2. R[d] \in Nat /\ R[d - 1] \in Nat
    BY <2>1, <1>8
  <2>3. CASE d \in pair \ excluded
    <3>1. ead[d] \in Nat
      BY <2>3
    <3>2. Min({ead[d], R[d - 1]}) = IF ead[d] <= R[d - 1] THEN ead[d] ELSE R[d - 1]
      BY <2>2, <3>1, SmallerOfTwo
    <3>3. /\ R[d] = R[d - 1] - Min({ead[d], R[d - 1]})
          /\ ne[d] = ead[d] /\ c[d] = Min({ead[d], R[d - 1]})
      BY <2>3, <1>3, <1>5, <1>6
    <3> QED BY <2>2, <2>3, <3>1, <3>2, <3>3
  <2>4. CASE d \in pair /\ d \in excluded
    <3>1. R[d] = R[d - 1] /\ ne[d] = 0 /\ c[d] = 0
      BY <2>4, <1>3, <1>5, <1>6
    <3> QED BY <2>2, <2>4, <3>1
  <2>5. CASE d \notin pair
    BY <2>2, <2>5, <1>3
  <2> QED BY <2>3, <2>4, <2>5
<1>10. \A d \in pair : c[d] \in Int /\ ne[d] \in Int
  BY <1>1, <1>9
<1> DEFINE Held == {d \in Nat : /\ R[d] + C(d) = amount /\ C(d) \in Int /\ E(d) \in Int
                                /\ R[d] = IF E(d) <= amount THEN amount - E(d) ELSE 0}
<1>11. \A d \in 0 .. n : d \in Held
  <2>0. \A d \in Nat : /\ IsFiniteSet(part(d))
                       /\ \A x \in part(d) : c[x] \in Int /\ ne[x] \in Int
    BY <1>1, <1>10, FS_Subset
  <2>1. 0 \in Held
    <3>1. part(0) = {}
      OBVIOUS
    <3>2. C(0) = 0 /\ E(0) = 0
      BY <3>1, FS_EmptySet, Unfolded
    <3> HIDE DEF C, E
    <3> QED BY <3>2, <1>2
  <2>2. ASSUME NEW d \in 0 + 1 .. n, d - 1 \in Held PROVE d \in Held
    <3>1. d \in 1 .. n /\ d \in Nat /\ d - 1 \in Nat
      BY <1>1
    <3>2. CASE d \in pair
      <4>1. d \in part(d) /\ part(d) \ {d} = part(d - 1)
        BY <3>1, <3>2
      <4>a. IsFiniteSet(part(d)) /\ \A x \in part(d) : c[x] \in Int /\ ne[x] \in Int
        BY <2>0, <3>1
      <4>b. /\ C(d) = c[d] + SumFunctionOnSet(c, part(d) \ {d})
            /\ E(d) = ne[d] + SumFunctionOnSet(ne, part(d) \ {d})
        <5> HIDE DEF part
        <5>1. SumFunctionOnSet(c, part(d)) = c[d] + SumFunctionOnSet(c, part(d) \ {d})
          BY <4>1, <4>a, SumStep
        <5>2. SumFunctionOnSet(ne, part(d)) = ne[d] + SumFunctionOnSet(ne, part(d) \ {d})
          BY <4>1, <4>a, SumStep
        <5> QED BY <5>1, <5>2
      <4>2. C(d) = c[d] + C(d - 1)
        BY <4>1, <4>b
      <4>3. E(d) = ne[d] + E(d - 1)
        BY <4>1, <4>b
      <4>4. /\ R[d - 1] + C(d - 1) = amount /\ C(d - 1) \in Int /\ E(d - 1) \in Int
            /\ R[d - 1] = IF E(d - 1) <= amount THEN amount - E(d - 1) ELSE 0
        BY <2>2
      <4> HIDE DEF C, E
      <4>5. /\ c[d] \in Nat /\ ne[d] \in Nat /\ R[d] = R[d - 1] - c[d]
            /\ c[d] = IF ne[d] <= R[d - 1] THEN ne[d] ELSE R[d - 1]
            /\ R[d] \in Nat /\ R[d - 1] \in Nat
        BY <1>9, <3>1, <3>2
      <4>6. R[d] + C(d) = amount /\ C(d) \in Int /\ E(d) \in Int
        BY <4>2, <4>3, <4>4, <4>5
      <4>7. R[d] = IF E(d) <= amount THEN amount - E(d) ELSE 0
        BY <4>3, <4>4, <4>5
      <4> QED BY <3>1, <4>6, <4>7
    <3>3. CASE d \notin pair
      <4>1. part(d) = part(d - 1)
        BY <3>1, <3>3
      <4>2. C(d) = C(d - 1) /\ E(d) = E(d - 1) /\ R[d] = R[d - 1]
        BY <4>1, <1>9, <3>1, <3>3
      <4> HIDE DEF C, E
      <4> QED BY <2>2, <3>1, <4>2
    <3> QED BY <3>2, <3>3
  <2> HIDE DEF Held
  <2> QED BY <1>1, <2>1, <2>2, Upward
<1>12. Total(b, pair, "covered") = Min({amount, SumFunctionOnSet(ne, pair)})
  <2>1. part(n) = pair /\ n \in 0 .. n
    <3>1. pair \cap (1 .. n) = pair
      BY <1>1
    <3>2. n \in 0 .. n
      BY <1>1
    <3> QED BY <3>1, <3>2
  <2>2. C(n) = SumFunctionOnSet(c, pair) /\ E(n) = SumFunctionOnSet(ne, pair)
    BY <2>1
  <2>3. Total(b, pair, "covered") = SumFunctionOnSet(c, pair)
    BY DEF Total, c
  <2>4. n \in Held /\ R[n] \in Nat
    BY <2>1, <1>8, <1>11
  <2> HIDE DEF C, E
  <2>5. C(n) = IF amount <= E(n) THEN amount ELSE E(n)
    BY <2>4
  <2>6. Min({amount, E(n)}) = IF amount <= E(n) THEN amount ELSE E(n)
    BY <2>4, SmallerOfTwo
  <2> QED BY <2>2, <2>3, <2>5, <2>6
<1>13. ASSUME NEW d \in pair, NEW e \in pair, d < e, ~b[d].excluded, b[d].excess > 0
       PROVE  b[e].covered = 0
  <2> DEFINE Spent == {k \in Nat : R[k] = 0}
  <2>1. d \in 1 .. n /\ e \in 1 .. n /\ d \in Nat /\ e - 1 \in d .. n
    BY <1>1, <1>13
  <2>2. R[d] = 0
    <3>1. c[d] \in Nat /\ c[d] = b[d].covered /\ ne[d] = ead[d] /\ b[d].excess = ead[d] - b[d].covered
      BY <1>4, <1>5, <1>7, <1>9, <1>13, <2>1
    <3>2. c[d] # ne[d]
      BY <3>1, <1>13
    <3> QED BY <3>2, <1>9, <2>1
  <2>3. ASSUME NEW k \in d + 1 .. n, k - 1 \in Spent PROVE k \in Spent
    <3>1. k \in 1 .. n /\ R[k - 1] = 0
      BY <1>1, <2>1, <2>3
    <3> QED BY <3>1, <1>9
  <2>4. d \in Spent
    BY <2>1, <2>2
  <2> HIDE DEF Spent
  <2>5. e - 1 \in Spent
    BY <1>1, <2>1, <2>3, <2>4, Upward
  <2>6. R[e - 1] = 0
    BY <2>5 DEF Spent
  <2> QED BY <2>1, <2>6, <1>7, <1>9
<1>14. Total(b, pair, "ead") = Total(b, pair, "covered") + Total(b, pair, "excess")
  <2> DEFINE f == [d \in pair |-> b[d].ead]
             g == [d \in pair |-> b[d].covered]
             h == [d \in pair |-> b[d].excess]
  <2>1. ASSUME NEW d \in pair PROVE g[d] \in Int /\ h[d] \in Int /\ f[d] = g[d] + h[d]
    <3>1. ead[d] \in Nat /\ b[d].covered \in Int
      BY <1>7, <1>10
    <3>2. f[d] = ead[d] /\ g[d] = b[d].covered /\ h[d] = ead[d] - b[d].covered
      BY <1>4
    <3> HIDE DEF f, g, h
    <3> QED BY <3>1, <3>2
  <2> HIDE DEF f, g, h
  <2>2. SumFunctionOnSet(f, pair) = SumFunctionOnSet(g, pair) + SumFunctionOnSet(h, pair)
    BY <1>1, <2>1, SumBoth
  <2> QED BY <2>2 DEF Total, f, g, h
<1>15. SumFunctionOnSet(ne, pair) = Eligible(b, pair)
  BY DEF ne, Eligible
<1> QED BY <1>12, <1>13, <1>14, <1>15 DEF Spreads

(* The approved guarantee of a date is an amount, and so is an exposure.    *)
LEMMA Guaranteed ==
    ASSUME NEW date \in Tanggal, Covering(date) # {}
    PROVE  GetActiveByEvaluationDate(date).amount \in Nat
<1> DEFINE ages == {date - c.dari : c \in Covering(date)}
<1>1. \A c \in Covering(date) : c.dari \in Nat /\ c.amount \in Nat /\ c.dari <= date
  BY LpsAssumption DEF Covering
<1>2. date \in Nat
  BY LpsAssumption
<1>3. ages \in SUBSET Nat /\ ages # {}
  BY <1>1, <1>2
<1>4. PICK age \in ages : \A other \in ages : age <= other
  BY <1>3, Least
<1>5. PICK c \in Covering(date) : age = date - c.dari
  BY <1>4
<1>6. \A other \in Covering(date) : other.dari <= c.dari
  <2> SUFFICES ASSUME NEW other \in Covering(date) PROVE other.dari <= c.dari
    OBVIOUS
  <2>1. age <= date - other.dari
    BY <1>4
  <2> QED BY <2>1, <1>1, <1>2, <1>5
<1>7. GetActiveByEvaluationDate(date) \in Covering(date)
  BY <1>5, <1>6 DEF GetActiveByEvaluationDate
<1> QED BY <1>1, <1>7

LEMMA Exposure ==
    ASSUME NEW d \in Deposito, NEW rates \in SUBSET Kurs, Converts(d, rates)
    PROVE  toIDR(d, rates) \in Nat
<1>1. Nominal[d] \in Nat
  BY LpsAssumption
<1>2. CASE MataUang[d] # "IDR"
  <2> DEFINE rate == (CHOOSE k \in rates : TRUE).rate
  <2>1. rate \in Nat
    BY <1>2, LpsAssumption DEF Converts
  <2>2. toIDR(d, rates) = (Nominal[d] * rate) \div 100
    BY <1>2 DEF toIDR
  <2> HIDE DEF rate
  <2>3. \A x \in Nat, y \in Nat : x * y \in Nat
    OBVIOUS
  <2>4. \A x \in Nat : x \div 100 \in Nat
    OBVIOUS
  <2> QED BY <1>1, <2>1, <2>2, <2>3, <2>4
<1> QED BY <1>1, <1>2 DEF toIDR

(* Both ways to a breakdown spread the guarantee over the deposits of a pair.*)
LEMMA Breakdown ==
    ASSUME NEW n, NEW b, NEW date \in Tanggal,
           NEW breakdown \in Aggregate(n, b, date) \cup AggregateBulk(date)
    PROVE  LET pair == ListByNasabahBank(n, b)
               amount == GetActiveByEvaluationDate(date).amount
           IN  /\ pair \in SUBSET Deposito /\ amount \in Nat
               /\ \E excluded : \E ead \in [pair -> Nat] :
                    \A d \in pair : breakdown[d] = allocatePair(pair, excluded, ead, amount)[d]
<1> DEFINE pair == ListByNasabahBank(n, b)
           amount == GetActiveByEvaluationDate(date).amount
<1>1. pair \in SUBSET Deposito
  BY DEF ListByNasabahBank
<1>2. amount \in Nat
  BY Guaranteed DEF Aggregate, AggregateBulk
<1>3. CASE breakdown \in Aggregate(n, b, date)
  <2> DEFINE ead == [d \in pair |-> toIDR(d, KursTengah(d, date))]
             excluded == GetActiveSetForInstrumens(date) \cap pair
  <2>1. /\ \A d \in pair : Converts(d, KursTengah(d, date))
        /\ breakdown = allocatePair(pair, excluded, ead, amount)
    BY <1>3 DEF Aggregate
  <2>2. \A d \in pair : KursTengah(d, date) \in SUBSET Kurs
    BY DEF KursTengah, KursOf
  <2>3. \A d \in pair : toIDR(d, KursTengah(d, date)) \in Nat
    BY <1>1, <2>1, <2>2, Exposure
  <2>4. ead \in [pair -> Nat]
    BY <2>3
  <2> HIDE DEF pair, amount, ead, excluded
  <2> QED BY <1>1, <1>2, <2>1, <2>4 DEF pair, amount
<1>4. CASE breakdown \in AggregateBulk(date)
  <2> DEFINE ead == [d \in pair |-> toIDR(d, KursJisdor(d, date))]
             excluded == BulkOverrides \cap pair
  <2>1. /\ \A d \in Deposito : Converts(d, KursJisdor(d, date))
        /\ breakdown = [d \in Deposito |->
               LET own == ListByNasabahBank(Nasabah[d], Bank[d])
               IN allocatePair(own, BulkOverrides \cap own,
                               [e \in own |-> toIDR(e, KursJisdor(e, date))], amount)[d]]
    BY <1>4 DEF AggregateBulk
  <2>2. \A d \in pair : KursJisdor(d, date) \in SUBSET Kurs
    BY DEF KursJisdor, KursOf
  <2>3. \A d \in pair : toIDR(d, KursJisdor(d, date)) \in Nat
    BY <1>1, <2>1, <2>2, Exposure
  <2>4. ead \in [pair -> Nat]
    BY <2>3
  <2>5. \A d \in pair : Nasabah[d] = n /\ Bank[d] = b
    BY DEF ListByNasabahBank
  <2>6. \A d \in pair : breakdown[d] = allocatePair(pair, excluded, ead, amount)[d]
    BY <1>1, <2>1, <2>5
  <2> HIDE DEF pair, amount, ead, excluded
  <2> QED BY <1>1, <1>2, <2>4, <2>6 DEF pair, amount
<1> QED BY <1>3, <1>4

(* Whatever the deposits, the proposals in force and the rates: a pair's    *)
(* covered part is the smaller of the guarantee and of the exposure not     *)
(* excluded, older deposits come first, and the preview's total splits.     *)
THEOREM GuaranteeSpentOnce == LpsSpec => []CoveredUpToCap
<1>1. CoveredUpToCap
  <2> SUFFICES ASSUME NEW n, NEW b, NEW date \in Tanggal
               PROVE  LET pair == ListByNasabahBank(n, b)
                      IN \A breakdown \in Aggregate(n, b, date) \cup AggregateBulk(date) :
                          /\ Total(breakdown, pair, "covered") =
                               Min({GetActiveByEvaluationDate(date).amount, Eligible(breakdown, pair)})
                          /\ \A d, e \in pair :
                               d < e /\ ~breakdown[d].excluded /\ breakdown[d].excess > 0
                                 => breakdown[e].covered = 0
                          /\ \A row \in Preview(n, b, date) : row.exposure = row.covered + row.excess
    BY DEF CoveredUpToCap
  <2> DEFINE pair == ListByNasabahBank(n, b)
             amount == GetActiveByEvaluationDate(date).amount
  <2>1. ASSUME NEW breakdown \in Aggregate(n, b, date) \cup AggregateBulk(date)
        PROVE  Spreads(breakdown, pair, amount)
    <3>1. pair \in SUBSET Deposito /\ amount \in Nat
      BY <2>1, Breakdown
    <3>2. PICK excluded : \E ead \in [pair -> Nat] :
              \A d \in pair : breakdown[d] = allocatePair(pair, excluded, ead, amount)[d]
      BY <2>1, Breakdown
    <3>3. PICK ead \in [pair -> Nat] :
              \A d \in pair : breakdown[d] = allocatePair(pair, excluded, ead, amount)[d]
      BY <3>2
    <3> HIDE DEF pair, amount
    <3> QED BY <3>1, <3>3, Spread
  <2>2. ASSUME NEW row \in Preview(n, b, date) PROVE row.exposure = row.covered + row.excess
    <3>1. PICK all \in AggregateBulk(date) :
              row = [exposure |-> Total(all, pair, "ead"), covered |-> Total(all, pair, "covered"),
                     excess |-> Total(all, pair, "excess")]
      BY <2>2 DEF Preview
    <3>2. Total(all, pair, "ead") = Total(all, pair, "covered") + Total(all, pair, "excess")
      BY <2>1 DEF Spreads
    <3> HIDE DEF pair
    <3> QED BY <3>1, <3>2
  <2> QED BY <2>1, <2>2 DEF Spreads
<1> QED BY <1>1, PTL
=============================================================================
