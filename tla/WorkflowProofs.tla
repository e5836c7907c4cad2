--------------------------- MODULE WorkflowProofs ---------------------------
(***************************************************************************)
(* Proofs that the workflow keeps its promises for any users, entities,    *)
(* number of requests in flight and configurations.                        *)
(*                                                                         *)
(* The argument: a request in flight carries the instance's version of the *)
(* time it was judged.  Every change of an instance increments its         *)
(* version, so a request whose version is still current was judged on the  *)
(* instance as it is; one whose version is not current leaves the instance *)
(* alone, and only its signature and the row's status remain to be         *)
(* accounted for.                                                          *)
(***************************************************************************)
EXTENDS Workflow, FiniteSetTheorems, TLAPS

\* What a transition is, action by action.
LEMMA TransitionShape ==
    ASSUME NEW c \in ConfigType, NEW t \in Transitions(c)
    PROVE  /\ t[1] \in States \ Terminal /\ t[2] \in Actions /\ t[3] \in States
           /\ t[2] = "SUBMIT" => t[1] = "DRAFT" /\ t[3] = "PENDING_REVIEW"
           /\ t[2] = "REVIEW" => t[1] = "PENDING_REVIEW" /\ t[3] = "PENDING_APPROVAL"
           /\ t[2] = "APPROVE" => t[1] = "PENDING_APPROVAL" /\ t[3] = ApproveTarget(c)
           /\ t[2] = "APPROVE2" =>
                 t[1] = "PENDING_APPROVAL_2" /\ t[3] = "APPROVED" /\ c.eyes = 6
           /\ t[2] = "REJECT" => t[3] = "REJECTED"
BY DEF Transitions, BaseTransitions, SixEyesTransitions, ApproveTarget,
       ConfigType, States, Terminal, Actions

-----------------------------------------------------------------------------
\* An update of an instance yields an instance, when its request is well-typed.
LEMMA UpdateStateType ==
    ASSUME NEW i \in InstanceType, NEW r \in TransitionType
    PROVE  UpdateState(i, r) \in InstanceType
<1> DEFINE by == [s \in Signers |-> IF s = r.action THEN r.user ELSE i.by[s]]
<1>1. by \in [Signers -> Users \cup {NoUser}]
  BY DEF InstanceType, TransitionType
<1>2. i.stamped \cup {r.action} \in SUBSET Actions /\ i.version + 1 \in Nat
  BY DEF InstanceType, TransitionType
<1>3. UpdateState(i, r) = IF ~Matches(i, r) THEN i
        ELSE [i EXCEPT !.state = r.to, !.by = by,
                       !.stamped = i.stamped \cup {r.action},
                       !.version = i.version + 1]
  BY DEF UpdateState
<1> HIDE DEF by
<1> QED
  BY <1>1, <1>2, <1>3 DEF InstanceType, TransitionType

\* A row is its four columns (the Boolean one apart from the numbers).
LEMMA RowColumns ==
    ASSUME NEW w \in RowType
    PROVE  /\ \A s \in States, n \in Nat :
                [w EXCEPT !.status = s, !.version = n] \in RowType
           /\ \A m \in Nat, n \in Nat :
                [w EXCEPT !.content = m, !.version = n] \in RowType
           /\ \A d \in BOOLEAN : [w EXCEPT !.deleted = d] \in RowType
BY Zenon DEF RowType

\* The hook leaves a well-typed row.
LEMMA HookUpdateType ==
    ASSUME NEW w \in RowType, NEW r \in TransitionType
    PROVE  HookUpdate(w, r) \in RowType
<1>1. r.to \in States /\ w.version + 1 \in Nat
  BY DEF RowType, TransitionType
<1> QED
  BY <1>1, RowColumns, Zenon DEF HookUpdate

\* The initial tables and requests have their types.
LEMMA TypeInitially == Init => TypeOK
BY ConfigAssumption
DEF Init, TypeOK, InstanceType, RowType, RequestType, States

\* No operation, load or commit, leaves the types.
LEMMA TypePreserved == TypeOK /\ [Next]_vars => TypeOK'
<1> SUFFICES ASSUME TypeOK, [Next]_vars PROVE TypeOK'
  OBVIOUS
<1> USE DEF TypeOK
<1>1. ASSUME NEW q \in Requests, NEW e \in Entities, NEW a \in Actions,
             NEW u \in Users, NEW fresh \in BOOLEAN, NEW v \in 0..inst[e].version,
             LoadTransition(q, e, a, u, fresh, v)
      PROVE  TypeOK'
  <2>1. PICK t \in Transitions(config[e]) :
           req' = [req EXCEPT ![q] =
                     [kind |-> "transition", entity |-> e, action |-> a,
                      user |-> u, from |-> t[1], to |-> t[3],
                      version |-> inst[e].version]]
    BY <1>1 DEF LoadTransition
  <2>2. t[1] \in States /\ t[3] \in States
    BY ConfigAssumption, TransitionShape
  <2>3. inst[e].version \in Nat
    BY DEF InstanceType
  <2>4. req' \in [Requests -> RequestType]
    BY <2>1, <2>2, <2>3 DEF RequestType, TransitionType
  <2> QED
    BY <1>1, <2>4 DEF LoadTransition
<1>2. ASSUME NEW q \in Requests, NEW e \in Entities, LoadEdit(q, e)
      PROVE  TypeOK'
  <2>1. row[e].version \in Nat
    BY DEF RowType
  <2> QED
    BY <1>2, <2>1 DEF LoadEdit, RequestType, EditType
<1>3. ASSUME NEW q \in Requests, NEW e \in Entities, LoadDelete(q, e)
      PROVE  TypeOK'
  BY <1>3 DEF LoadDelete, RequestType, DeleteType
<1>4. ASSUME NEW q \in Requests, CommitTransition(q)
      PROVE  TypeOK'
  <2> DEFINE r == req[q]
             e == r.entity
  <2>1. r \in TransitionType
    BY <1>4 DEF CommitTransition, RequestType, Idle, TransitionType, EditType, DeleteType
  <2>2. e \in Entities /\ inst[e] \in InstanceType /\ row[e] \in RowType
    BY <2>1 DEF TransitionType
  <2>3. UpdateState(inst[e], r) \in InstanceType
    BY <2>1, <2>2, UpdateStateType
  <2>4. Signature(r) \in SignatureType
    BY <2>1 DEF Signature, SignatureType, TransitionType
  <2>5. HookUpdate(row[e], r) \in RowType
    BY <2>1, <2>2, HookUpdateType
  <2>6. inst' = [inst EXCEPT ![e] = UpdateState(inst[e], r)]
        /\ ledger' = [ledger EXCEPT ![e] = ledger[e] \cup {Signature(r)}]
        /\ row' = [row EXCEPT ![e] = HookUpdate(row[e], r)]
        /\ req' = [req EXCEPT ![q] = Idle]
        /\ config' = config
    BY <1>4 DEF CommitTransition
  <2> HIDE DEF r, e
  <2>7. inst' \in [Entities -> InstanceType]
    BY <2>2, <2>3, <2>6
  <2>8. ledger' \in [Entities -> SUBSET SignatureType]
    BY <2>2, <2>4, <2>6
  <2>9. row' \in [Entities -> RowType]
    BY <2>2, <2>5, <2>6
  <2>10. req' \in [Requests -> RequestType]
    BY <2>6 DEF RequestType
  <2> QED
    BY <2>6, <2>7, <2>8, <2>9, <2>10
<1>5. ASSUME NEW q \in Requests, CommitEdit(q)
      PROVE  TypeOK'
  <2> DEFINE w == row[req[q].entity]
  <2>1. req[q].entity \in Entities
    BY <1>5 DEF CommitEdit, RequestType, Idle, TransitionType, EditType, DeleteType
  <2>2. w \in RowType /\ w.content + 1 \in Nat /\ w.version + 1 \in Nat
    BY <2>1 DEF RowType
  <2>3. [w EXCEPT !.content = w.content + 1, !.version = w.version + 1] \in RowType
    BY <2>2, RowColumns, Zenon DEF States
  <2>4. row' \in [Entities -> RowType]
    BY <1>5, <2>3 DEF CommitEdit
  <2> QED
    BY <1>5, <2>4 DEF CommitEdit, RequestType
<1>6. ASSUME NEW q \in Requests, CommitDelete(q)
      PROVE  TypeOK'
  BY <1>6 DEF CommitDelete, RequestType, RowType
<1>7. ASSUME NEW q \in Requests, Fail(q)
      PROVE  TypeOK'
  BY <1>7 DEF Fail, RequestType
<1>8. CASE UNCHANGED vars
  BY <1>8 DEF vars
<1> QED
  BY <1>1, <1>2, <1>3, <1>4, <1>5, <1>6, <1>7, <1>8 DEF Next

\* Every variable keeps the type of its columns.
THEOREM TypeCorrect == Spec => []TypeOK
BY TypeInitially, TypePreserved, PTL DEF Spec

-----------------------------------------------------------------------------
(* The inductive invariant.                                                *)

\* What an instance looks like: actors are only in the columns of the steps it
\* has taken, an actor column is stamped, and the actors are independent.
Shape(c, i) ==
    /\ \A a \in Signers : i.by[a] # NoUser => a \in i.stamped
    /\ i.state \in {"DRAFT", "PENDING_REVIEW"} => i.by["REVIEW"] = NoUser
    /\ i.state \in {"DRAFT", "PENDING_REVIEW", "PENDING_APPROVAL"} =>
          i.by["APPROVE"] = NoUser
    /\ i.state \notin Terminal => i.by["APPROVE2"] = NoUser
    /\ i.state \in {"PENDING_APPROVAL", "PENDING_APPROVAL_2"} =>
          i.by["REVIEW"] # NoUser
    /\ i.state = "PENDING_APPROVAL_2" => i.by["APPROVE"] # NoUser /\ c.eyes = 6
    /\ i.maker \notin {i.by["REVIEW"], i.by["APPROVE"], i.by["APPROVE2"]}
    /\ i.by["REVIEW"] # NoUser => i.by["REVIEW"] \notin {i.by["APPROVE"], i.by["APPROVE2"]}
    /\ c.distinctApprover2 /\ i.by["APPROVE"] # NoUser
          => i.by["APPROVE"] # i.by["APPROVE2"]

\* The ledger holds the signatures that an instance awaiting approval rests on.
Reviewed(i, L) ==
    i.state = "PENDING_APPROVAL" =>
        \E s \in L : s.action = "REVIEW" /\ s.user = i.by["REVIEW"] /\ s.version < i.version
Approved(i, L) ==
    i.state = "PENDING_APPROVAL_2" =>
        \E s, a \in L : /\ SignedInOrder(s, "REVIEW", a, "APPROVE")
                        /\ s.user = i.by["REVIEW"] /\ a.user = i.by["APPROVE"]
                        /\ a.version < i.version

\* x, a request or a signature, is the last of a complete chain of signatures.
Warranted(c, maker, L, x) ==
    /\ x.user # maker
    /\ c.eyes # 6 =>
          /\ x.action = "APPROVE"
          /\ \E s \in L : /\ s.action = "REVIEW" /\ s.version < x.version
                          /\ s.user # maker /\ x.user # s.user
    /\ c.eyes = 6 =>
          /\ x.action = "APPROVE2"
          /\ \E s, a \in L : /\ SignedInOrder(s, "REVIEW", a, "APPROVE")
                             /\ s.user # maker /\ a.user \notin {maker, s.user}
                             /\ a.version < x.version
                             /\ x.user # s.user
                             /\ c.distinctApprover2 => x.user # a.user

\* What is known of a transition in flight: it was judged on the instance as
\* it is, or on one that has changed since.
Judged(c, i, L, r) ==
    /\ r.version <= i.version
    /\ <<r.from, r.action, r.to>> \in Transitions(c)
    /\ r.version = i.version => r.from = i.state /\ SoDPermits(c, i, r.action, r.user)
    /\ r.to = "APPROVED" => Warranted(c, i.maker, L, r)

\* What is known of an edit in flight.
EditJudged(w, r) ==
    /\ r.expected <= w.version
    /\ r.expected = w.version => w.status # "APPROVED"

InstancesShaped == \A e \in Entities : Shape(config[e], inst[e])
LedgersComplete ==
    \A e \in Entities : Reviewed(inst[e], ledger[e]) /\ Approved(inst[e], ledger[e])
RequestsJudged ==
    \A q \in Requests :
        LET r == req[q] e == r.entity IN
        /\ r.kind = "transition" => Judged(config[e], inst[e], ledger[e], r)
        /\ r.kind = "edit" => EditJudged(row[e], r)

IInv == /\ TypeOK /\ InstancesShaped /\ LedgersComplete /\ RequestsJudged
        /\ LedgerBacksInstance /\ ApprovedRowEndorsed

-----------------------------------------------------------------------------
(* What one update of an instance does to the parts of the invariant.      *)

\* What an update that matches does to each column of the instance.
LEMMA UpdateFields ==
    ASSUME NEW i \in InstanceType, NEW r \in TransitionType, Matches(i, r)
    PROVE  LET j == UpdateState(i, r) IN
           /\ j.state = r.to /\ j.maker = i.maker
           /\ \A a \in Signers : j.by[a] = IF a = r.action THEN r.user ELSE i.by[a]
           /\ j.stamped = i.stamped \cup {r.action}
           /\ j.version = i.version + 1
BY DEF UpdateState, InstanceType

\* The update keeps the shape that states and actor columns have in common.
LEMMA ShapeKept ==
    ASSUME NEW c \in ConfigType, NEW i \in InstanceType, NEW r \in TransitionType,
           NEW L, Shape(c, i), Judged(c, i, L, r), Matches(i, r)
    PROVE  Shape(c, UpdateState(i, r))
<1> DEFINE j == UpdateState(i, r)
           t == <<r.from, r.action, r.to>>
<1>1. /\ j.state = r.to /\ j.maker = i.maker
      /\ \A a \in Signers : j.by[a] = IF a = r.action THEN r.user ELSE i.by[a]
      /\ j.stamped = i.stamped \cup {r.action}
  BY UpdateFields
<1>2. r.from = i.state /\ SoDPermits(c, i, r.action, r.user) /\ t \in Transitions(c)
  BY DEF Judged, Matches
<1>3. /\ r.from \notin Terminal
      /\ r.action = "SUBMIT" => r.from = "DRAFT" /\ r.to = "PENDING_REVIEW"
      /\ r.action = "REVIEW" => r.from = "PENDING_REVIEW" /\ r.to = "PENDING_APPROVAL"
      /\ r.action = "APPROVE" => r.from = "PENDING_APPROVAL" /\ r.to = ApproveTarget(c)
      /\ r.action = "APPROVE2" =>
            r.from = "PENDING_APPROVAL_2" /\ r.to = "APPROVED" /\ c.eyes = 6
      /\ r.action = "REJECT" => r.to = "REJECTED"
  BY <1>2, TransitionShape
<1>4. r.user # NoUser /\ r.action \in Actions
  BY UserAssumption DEF TransitionType
<1> HIDE DEF j, t
<1> USE DEF Shape, SoDPermits, Terminal, Signers, Actions
<1>5. CASE r.action = "SUBMIT"
  BY <1>1, <1>2, <1>3, <1>5 DEF j
<1>6. CASE r.action = "REVIEW"
  BY <1>1, <1>2, <1>3, <1>4, <1>6 DEF j
<1>7. CASE r.action = "APPROVE"
  <2>1. ApproveTarget(c) \in {"APPROVED", "PENDING_APPROVAL_2"}
        /\ (ApproveTarget(c) = "PENDING_APPROVAL_2" => c.eyes = 6)
    BY DEF ApproveTarget
  <2> QED
    BY <1>1, <1>2, <1>3, <1>4, <1>7, <2>1 DEF j
<1>8. CASE r.action = "APPROVE2"
  BY <1>1, <1>2, <1>3, <1>4, <1>8 DEF j
<1>9. CASE r.action = "REJECT"
  BY <1>1, <1>2, <1>3, <1>4, <1>9 DEF j
<1> QED
  BY <1>4, <1>5, <1>6, <1>7, <1>8, <1>9

\* With the request's signature added, the ledger holds what the updated instance
\* rests on.
LEMMA LedgerKept ==
    ASSUME NEW c \in ConfigType, NEW i \in InstanceType, NEW r \in TransitionType,
           NEW L, Reviewed(i, L), Judged(c, i, L, r), Matches(i, r)
    PROVE  LET j == UpdateState(i, r) M == L \cup {Signature(r)} IN
           Reviewed(j, M) /\ Approved(j, M)
<1> DEFINE j == UpdateState(i, r)
           M == L \cup {Signature(r)}
           t == <<r.from, r.action, r.to>>
<1>1. /\ j.state = r.to
      /\ \A a \in Signers : j.by[a] = IF a = r.action THEN r.user ELSE i.by[a]
      /\ j.version = i.version + 1
  BY UpdateFields
<1>2. r.from = i.state /\ t \in Transitions(c) /\ r.version = i.version /\ i.version \in Nat
  BY DEF Judged, Matches, InstanceType
<1>3. /\ r.to = "PENDING_APPROVAL" => r.action = "REVIEW"
      /\ r.to = "PENDING_APPROVAL_2" => r.action = "APPROVE" /\ r.from = "PENDING_APPROVAL"
  BY <1>2 DEF Transitions, BaseTransitions, SixEyesTransitions, ApproveTarget
<1>4. /\ Signature(r).action = r.action /\ Signature(r).user = r.user
      /\ Signature(r).version = i.version
  BY <1>2 DEF Signature
<1> HIDE DEF j, t
<1>5. Reviewed(j, M)
  BY <1>1, <1>2, <1>3, <1>4 DEF Reviewed, Signers, Actions
<1>6. Approved(j, M)
  <2> SUFFICES ASSUME j.state = "PENDING_APPROVAL_2" PROVE Approved(j, M)
    BY DEF Approved
  <2>1. PICK s \in L : s.action = "REVIEW" /\ s.user = i.by["REVIEW"]
                        /\ s.version < i.version
    BY <1>1, <1>2, <1>3 DEF Reviewed
  <2>2. /\ SignedInOrder(s, "REVIEW", Signature(r), "APPROVE")
        /\ s.user = j.by["REVIEW"] /\ Signature(r).user = j.by["APPROVE"]
        /\ Signature(r).version < j.version
    BY <1>1, <1>2, <1>3, <1>4, <2>1 DEF SignedInOrder, Signers, Actions
  <2> QED
    BY <2>1, <2>2 DEF Approved
<1> QED
  BY <1>5, <1>6 DEF j

\* A longer ledger warrants all that a shorter one did.
LEMMA WarrantedMonotone ==
    ASSUME NEW c, NEW m, NEW L, NEW M, L \subseteq M, NEW x, Warranted(c, m, L, x)
    PROVE  Warranted(c, m, M, x)
BY DEF Warranted

\* A row may read APPROVED once a warranted signature is on the ledger.
LEMMA WarrantSuffices ==
    ASSUME NEW c \in ConfigType, NEW m, NEW L, NEW x \in L, Warranted(c, m, L, x)
    PROVE  \E r, a \in L :
             /\ SignedInOrder(r, "REVIEW", a, "APPROVE")
             /\ r.user # m
             /\ a.user \notin {m, r.user}
             /\ c.eyes = 6 =>
                  \E b \in L :
                      /\ SignedInOrder(a, "APPROVE", b, "APPROVE2")
                      /\ b.user \notin {m, r.user}
                      /\ c.distinctApprover2 => b.user # a.user
BY DEF Warranted, SignedInOrder

\* Judging: what Load established holds of the request from then on.
LEMMA LoadJudges ==
    ASSUME NEW c \in ConfigType, NEW i \in InstanceType, NEW L, NEW t \in Transitions(c),
           NEW u \in Users, NEW fresh, NEW v,
           Shape(c, i), Reviewed(i, L), Approved(i, L),
           EngineAccepts(c, i, t[2], u, fresh, v), t[1] = i.state,
           NEW r, r.from = t[1], r.action = t[2], r.to = t[3], r.user = u,
           r.version = i.version
    PROVE  Judged(c, i, L, r)
<1>1. SoDPermits(c, i, r.action, r.user)
  BY DEF EngineAccepts
<1>2. <<r.from, r.action, r.to>> \in Transitions(c)
  BY DEF Transitions, BaseTransitions, SixEyesTransitions
<1>3. ASSUME r.to = "APPROVED" PROVE Warranted(c, i.maker, L, r)
  <2>1. /\ \/ r.action = "APPROVE" /\ c.eyes # 6 /\ i.state = "PENDING_APPROVAL"
           \/ r.action = "APPROVE2" /\ c.eyes = 6 /\ i.state = "PENDING_APPROVAL_2"
    BY <1>2, <1>3 DEF Transitions, BaseTransitions, SixEyesTransitions, ApproveTarget
  <2>2. CASE r.action = "APPROVE"
    BY <1>1, <2>1, <2>2 DEF SoDPermits, Reviewed, Shape, Warranted
  <2>3. CASE r.action = "APPROVE2"
    BY <1>1, <2>1, <2>3 DEF SoDPermits, Approved, Shape, Warranted
  <2> QED
    BY <2>1, <2>2, <2>3
<1>4. i.version \in Nat
  BY DEF InstanceType
<1> QED
  BY <1>1, <1>2, <1>3, <1>4 DEF Judged

-----------------------------------------------------------------------------
\* The inductive invariant holds of drafts nobody has asked anything about.
LEMMA IInvInitially == Init => IInv
<1> SUFFICES ASSUME Init PROVE IInv
  OBVIOUS
<1>1. TypeOK
  BY TypeInitially
<1>2. \A e \in Entities : /\ inst[e].state = "DRAFT" /\ inst[e].maker \in Users
                          /\ \A a \in Signers : inst[e].by[a] = NoUser
  BY DEF Init
<1>3. InstancesShaped
  BY <1>2, UserAssumption DEF InstancesShaped, Shape, Signers, Actions, Terminal
<1>4. LedgersComplete
  BY <1>2 DEF LedgersComplete, Reviewed, Approved
<1>5. RequestsJudged
  BY DEF Init, RequestsJudged, Idle
<1>6. LedgerBacksInstance /\ ApprovedRowEndorsed
  BY <1>2 DEF LedgerBacksInstance, ApprovedRowEndorsed, Init
<1> QED
  BY <1>1, <1>3, <1>4, <1>5, <1>6 DEF IInv

\* The step of one request, when the tables stay as they are.
LEMMA RequestStep ==
    ASSUME IInv, TypeOK', NEW q \in Requests, NEW r,
           req' = [req EXCEPT ![q] = r],
           UNCHANGED <<config, inst, ledger, row>>,
           r.kind = "transition" =>
               Judged(config[r.entity], inst[r.entity], ledger[r.entity], r),
           r.kind = "edit" => EditJudged(row[r.entity], r)
    PROVE  IInv'
<1>1. RequestsJudged'
  BY DEF RequestsJudged, IInv, TypeOK
<1>2. (InstancesShaped /\ LedgersComplete /\ LedgerBacksInstance /\ ApprovedRowEndorsed)'
  BY DEF IInv, InstancesShaped, LedgersComplete, LedgerBacksInstance, ApprovedRowEndorsed
<1> QED
  BY <1>1, <1>2 DEF IInv

\* The step of a request that writes the row alone, whose version grows with
\* its status.
LEMMA RowStep ==
    ASSUME IInv, TypeOK', NEW q \in Requests, NEW e \in Entities, NEW w,
           req' = [req EXCEPT ![q] = Idle],
           row' = [row EXCEPT ![e] = w],
           w.status = row[e].status, row[e].version <= w.version,
           UNCHANGED <<config, inst, ledger>>
    PROVE  IInv'
<1>1. RequestsJudged'
  <2> SUFFICES ASSUME NEW p \in Requests, req'[p] # Idle
               PROVE  LET r == req'[p] d == r.entity IN
                      /\ r.kind = "transition" =>
                            Judged(config'[d], inst'[d], ledger'[d], r)
                      /\ r.kind = "edit" => EditJudged(row'[d], r)
    BY DEF RequestsJudged, Idle
  <2> DEFINE r == req[p]
  <2>1. p # q /\ req'[p] = r
    BY DEF IInv, TypeOK
  <2>2. r.kind = "transition" =>
           Judged(config[r.entity], inst[r.entity], ledger[r.entity], r)
    BY DEF IInv, RequestsJudged
  <2>3. ASSUME r.kind = "edit" PROVE EditJudged(row'[r.entity], r)
    <3>1. r \in EditType
      BY <2>1, <2>3 DEF IInv, TypeOK, RequestType, Idle, TransitionType, EditType, DeleteType
    <3>2. EditJudged(row[r.entity], r) /\ r.entity \in Entities /\ r.expected \in Nat
      BY <2>3, <3>1 DEF IInv, RequestsJudged, EditType
    <3>3. row[r.entity] \in RowType /\ row'[r.entity] \in RowType
      BY <3>2 DEF IInv, TypeOK
    <3> QED
      BY <3>2, <3>3 DEF EditJudged, RowType, IInv, TypeOK
  <2> QED
    BY <2>1, <2>2, <2>3
<1>2. (InstancesShaped /\ LedgersComplete /\ LedgerBacksInstance)'
  BY DEF IInv, InstancesShaped, LedgersComplete, LedgerBacksInstance
<1>3. ApprovedRowEndorsed'
  <2>1. \A d \in Entities : row'[d].status = row[d].status
    BY DEF IInv, TypeOK
  <2> QED
    BY <2>1 DEF IInv, ApprovedRowEndorsed
<1> QED
  BY <1>1, <1>2, <1>3 DEF IInv

\* What the transaction of a transition does to the tables, for its entity and
\* for the others.
LEMMA CommitEffect ==
    ASSUME IInv, NEW q \in Requests, CommitTransition(q)
    PROVE  LET r == req[q] e == r.entity IN
           /\ r \in TransitionType /\ e \in Entities
           /\ inst[e] \in InstanceType /\ row[e] \in RowType /\ config[e] \in ConfigType
           /\ Judged(config[e], inst[e], ledger[e], r)
           /\ inst' = [inst EXCEPT ![e] = UpdateState(inst[e], r)]
           /\ ledger' = [ledger EXCEPT ![e] = ledger[e] \cup {Signature(r)}]
           /\ row' = [row EXCEPT ![e] = HookUpdate(row[e], r)]
           /\ req' = [req EXCEPT ![q] = Idle] /\ config' = config
<1> DEFINE r == req[q]
           e == r.entity
<1>1. r \in TransitionType
  BY DEF CommitTransition, IInv, TypeOK, RequestType, Idle, TransitionType, EditType,
         DeleteType
<1>2. e \in Entities /\ inst[e] \in InstanceType /\ row[e] \in RowType
      /\ config[e] \in ConfigType
  BY <1>1, ConfigAssumption DEF TransitionType, IInv, TypeOK
<1>3. Judged(config[e], inst[e], ledger[e], r)
  BY DEF CommitTransition, IInv, RequestsJudged
<1>4. /\ inst' = [inst EXCEPT ![e] = UpdateState(inst[e], r)]
      /\ ledger' = [ledger EXCEPT ![e] = ledger[e] \cup {Signature(r)}]
      /\ row' = [row EXCEPT ![e] = HookUpdate(row[e], r)]
      /\ req' = [req EXCEPT ![q] = Idle] /\ config' = config
  BY DEF CommitTransition
<1> QED
  BY <1>1, <1>2, <1>3, <1>4

\* A request in flight stays judged whatever another one commits.
LEMMA JudgedKept ==
    ASSUME NEW c \in ConfigType, NEW i \in InstanceType, NEW L, NEW r \in TransitionType,
           NEW p \in TransitionType, Judged(c, i, L, p)
    PROVE  Judged(c, UpdateState(i, r), L \cup {Signature(r)}, p)
<1> DEFINE j == UpdateState(i, r)
           M == L \cup {Signature(r)}
<1>1. p.to = "APPROVED" => Warranted(c, i.maker, M, p)
  BY WarrantedMonotone DEF Judged
<1>2. CASE Matches(i, r)
  <2>1. j.version = i.version + 1 /\ j.maker = i.maker
    BY <1>2, UpdateFields
  <2>2. i.version \in Nat /\ p.version \in Nat
    BY DEF InstanceType, TransitionType
  <2> QED
    BY <1>1, <2>1, <2>2 DEF Judged
<1>3. CASE ~Matches(i, r)
  <2>1. j = i
    BY <1>3 DEF UpdateState
  <2> QED
    BY <1>1, <2>1 DEF Judged
<1> QED
  BY <1>2, <1>3

\* CommitTransition keeps the shape of every instance.
LEMMA CommitKeepsInstances ==
    ASSUME IInv, NEW q \in Requests, CommitTransition(q)
    PROVE  (InstancesShaped /\ LedgersComplete)'
<1> DEFINE r == req[q]
           e == r.entity
           c == config[e]
           i == inst[e]
           L == ledger[e]
<1>1. /\ r \in TransitionType /\ e \in Entities /\ i \in InstanceType /\ c \in ConfigType
      /\ Judged(c, i, L, r)
      /\ inst' = [inst EXCEPT ![e] = UpdateState(i, r)]
      /\ ledger' = [ledger EXCEPT ![e] = L \cup {Signature(r)}]
      /\ config' = config
  BY CommitEffect
<1>2. Shape(c, i) /\ Reviewed(i, L) /\ Approved(i, L)
  BY <1>1 DEF IInv, InstancesShaped, LedgersComplete
<1> DEFINE j == UpdateState(i, r)
           M == L \cup {Signature(r)}
<1>3. Shape(c, j) /\ Reviewed(j, M) /\ Approved(j, M)
  <2>1. CASE Matches(i, r)
    BY <1>1, <1>2, <2>1, ShapeKept, LedgerKept
  <2>2. CASE ~Matches(i, r)
    <3>1. j = i
      BY <2>2 DEF UpdateState
    <3> QED
      BY <1>2, <3>1 DEF Reviewed, Approved
  <2> QED
    BY <2>1, <2>2
<1>4. /\ \A d \in Entities : inst'[d] = IF d = e THEN j ELSE inst[d]
      /\ \A d \in Entities : ledger'[d] = IF d = e THEN M ELSE ledger[d]
  BY <1>1 DEF IInv, TypeOK
<1> HIDE DEF j, M, i, L, e, r
<1> QED
  BY <1>1, <1>3, <1>4 DEF IInv, InstancesShaped, LedgersComplete, c

\* CommitTransition keeps the other requests judged.
LEMMA CommitKeepsRequests ==
    ASSUME IInv, TypeOK', NEW q \in Requests, CommitTransition(q)
    PROVE  RequestsJudged'
<1> DEFINE r == req[q]
           e == r.entity
<1>1. /\ r \in TransitionType /\ e \in Entities
      /\ inst[e] \in InstanceType /\ row[e] \in RowType /\ config[e] \in ConfigType
      /\ inst' = [inst EXCEPT ![e] = UpdateState(inst[e], r)]
      /\ ledger' = [ledger EXCEPT ![e] = ledger[e] \cup {Signature(r)}]
      /\ row' = [row EXCEPT ![e] = HookUpdate(row[e], r)]
      /\ req' = [req EXCEPT ![q] = Idle] /\ config' = config
  BY CommitEffect
<1> HIDE DEF r, e
<1> SUFFICES ASSUME NEW p \in Requests, req'[p] # Idle
             PROVE  LET x == req'[p] d == x.entity IN
                    /\ x.kind = "transition" =>
                          Judged(config'[d], inst'[d], ledger'[d], x)
                    /\ x.kind = "edit" => EditJudged(row'[d], x)
  BY DEF RequestsJudged, Idle
<1> DEFINE x == req[p]
           d == x.entity
<1>2. p # q /\ req'[p] = x
  BY <1>1 DEF IInv, TypeOK
<1>3. ASSUME x.kind = "transition"
      PROVE  Judged(config'[d], inst'[d], ledger'[d], x)
  <2>1. x \in TransitionType /\ Judged(config[d], inst[d], ledger[d], x)
    BY <1>3 DEF IInv, TypeOK, RequestsJudged, RequestType, Idle, TransitionType,
                EditType, DeleteType
  <2>2. CASE d = e
    BY <1>1, <2>1, <2>2, JudgedKept DEF IInv, TypeOK
  <2>3. CASE d # e
    BY <1>1, <2>1, <2>3 DEF IInv, TypeOK
  <2> QED
    BY <2>2, <2>3
<1>4. ASSUME x.kind = "edit"
      PROVE  EditJudged(row'[d], x)
  <2>1. x \in EditType /\ EditJudged(row[d], x)
    BY <1>2, <1>4 DEF IInv, TypeOK, RequestsJudged, RequestType, Idle, TransitionType,
                EditType, DeleteType
  <2>2. d \in Entities /\ x.expected \in Nat /\ row[d].version \in Nat
    BY <2>1 DEF EditType, IInv, TypeOK, RowType
  <2>3. CASE d = e
    <3>1. row'[d].version = row[d].version + 1
      BY <1>1, <2>3 DEF IInv, TypeOK, HookUpdate, RowType
    <3> QED
      BY <2>1, <2>2, <3>1 DEF EditJudged
  <2>4. CASE d # e
    BY <1>1, <2>1, <2>4 DEF IInv, TypeOK
  <2> QED
    BY <2>3, <2>4
<1> QED
  BY <1>2, <1>3, <1>4

\* CommitTransition keeps every instance backed by the ledger.
LEMMA CommitKeepsBacking ==
    ASSUME IInv, NEW q \in Requests, CommitTransition(q)
    PROVE  LedgerBacksInstance'
<1> DEFINE r == req[q]
           e == r.entity
           j == UpdateState(inst[e], r)
           M == ledger[e] \cup {Signature(r)}
<1>1. /\ r \in TransitionType /\ e \in Entities /\ inst[e] \in InstanceType
      /\ inst' = [inst EXCEPT ![e] = j]
      /\ ledger' = [ledger EXCEPT ![e] = M]
  BY CommitEffect
<1>2. ASSUME NEW a \in Signers, j.by[a] # NoUser
      PROVE  \E s \in M : s.action = a /\ s.user = j.by[a] /\ s.version < j.version
  <2>1. CASE ~Matches(inst[e], r)
    BY <1>1, <1>2, <2>1 DEF IInv, LedgerBacksInstance, UpdateState
  <2>2. CASE Matches(inst[e], r) /\ a # r.action
    <3>1. j.by[a] = inst[e].by[a] /\ j.version = inst[e].version + 1
      BY <1>1, <2>2, UpdateFields
    <3>2. PICK s \in ledger[e] : /\ s.action = a /\ s.user = inst[e].by[a]
                                 /\ s.version < inst[e].version
      BY <1>1, <1>2, <3>1 DEF IInv, LedgerBacksInstance
    <3>3. s.version \in Nat /\ inst[e].version \in Nat
      BY <1>1 DEF IInv, TypeOK, SignatureType, InstanceType
    <3> QED
      BY <3>1, <3>2, <3>3
  <2>3. CASE Matches(inst[e], r) /\ a = r.action
    <3>1. j.by[a] = r.user /\ j.version = inst[e].version + 1
      BY <1>1, <2>3, UpdateFields
    <3>2. /\ Signature(r).action = a /\ Signature(r).user = r.user
          /\ Signature(r).version = inst[e].version
      BY <2>3 DEF Signature, Matches
    <3>3. inst[e].version \in Nat
      BY <1>1 DEF InstanceType
    <3> QED
      BY <3>1, <3>2, <3>3
  <2> QED
    BY <2>1, <2>2, <2>3
<1>3. /\ \A d \in Entities : inst'[d] = IF d = e THEN j ELSE inst[d]
      /\ \A d \in Entities : ledger'[d] = IF d = e THEN M ELSE ledger[d]
  BY <1>1 DEF IInv, TypeOK
<1> HIDE DEF j, M, e, r
<1> QED
  BY <1>2, <1>3 DEF IInv, LedgerBacksInstance

\* CommitTransition marks a row APPROVED only with a warrant on the ledger.
LEMMA CommitKeepsEndorsed ==
    ASSUME IInv, NEW q \in Requests, CommitTransition(q)
    PROVE  ApprovedRowEndorsed'
<1> DEFINE r == req[q]
           e == r.entity
           j == UpdateState(inst[e], r)
           M == ledger[e] \cup {Signature(r)}
<1>1. /\ r \in TransitionType /\ e \in Entities /\ inst[e] \in InstanceType
      /\ config[e] \in ConfigType /\ row[e] \in RowType
      /\ Judged(config[e], inst[e], ledger[e], r)
      /\ inst' = [inst EXCEPT ![e] = j]
      /\ ledger' = [ledger EXCEPT ![e] = M]
      /\ row' = [row EXCEPT ![e] = HookUpdate(row[e], r)]
      /\ config' = config
  BY CommitEffect
<1>2. \A d \in Entities : /\ inst'[d].maker = inst[d].maker
                          /\ ledger[d] \subseteq ledger'[d]
  <2>1. j.maker = inst[e].maker
    BY <1>1, UpdateFields DEF UpdateState
  <2> QED
    BY <1>1, <2>1 DEF IInv, TypeOK
<1> DEFINE Endorsed(c, m, L) ==
             \E s, a \in L :
                /\ SignedInOrder(s, "REVIEW", a, "APPROVE")
                /\ s.user # m
                /\ a.user \notin {m, s.user}
                /\ c.eyes = 6 =>
                     \E b \in L :
                         /\ SignedInOrder(a, "APPROVE", b, "APPROVE2")
                         /\ b.user \notin {m, s.user}
                         /\ c.distinctApprover2 => b.user # a.user
<1>3. \A c, m, L, N : L \subseteq N /\ Endorsed(c, m, L) => Endorsed(c, m, N)
  OBVIOUS
<1>4. ASSUME r.to = "APPROVED" PROVE Endorsed(config[e], inst[e].maker, M)
  <2>1. Warranted(config[e], inst[e].maker, ledger[e], r)
    BY <1>1, <1>4 DEF Judged
  <2>2. Warranted(config[e], inst[e].maker, ledger[e], Signature(r))
    BY <2>1 DEF Warranted, Signature
  <2>3. Warranted(config[e], inst[e].maker, M, Signature(r))
    BY <2>2, WarrantedMonotone
  <2> HIDE DEF r, e
  <2> QED
    BY <1>1, <2>3, WarrantSuffices
<1>5. \A d \in Entities : row'[d].status = "APPROVED" =>
         \/ row[d].status = "APPROVED"
         \/ d = e /\ r.to = "APPROVED" /\ ledger'[e] = M
  <2>1. HookUpdate(row[e], r).status = r.to
    BY <1>1 DEF HookUpdate, RowType
  <2> QED
    BY <1>1, <2>1 DEF IInv, TypeOK
<1>6. \A d \in Entities : row[d].status = "APPROVED" =>
         Endorsed(config[d], inst[d].maker, ledger[d])
  BY DEF IInv, ApprovedRowEndorsed
<1>7. \A d \in Entities : row'[d].status = "APPROVED" =>
         Endorsed(config'[d], inst'[d].maker, ledger'[d])
  <2> HIDE DEF Endorsed, r, e, M
  <2> QED
    BY <1>1, <1>2, <1>3, <1>4, <1>5, <1>6
<1> QED
  BY <1>7 DEF ApprovedRowEndorsed

\* Every operation of the service and of the row keeps the inductive invariant.
LEMMA IInvPreserved == IInv /\ [Next]_vars => IInv'
<1> SUFFICES ASSUME IInv, [Next]_vars PROVE IInv'
  OBVIOUS
<1>0. TypeOK'
  BY TypePreserved DEF IInv
<1>1. ASSUME NEW q \in Requests, NEW e \in Entities, NEW a \in Actions,
             NEW u \in Users, NEW fresh \in BOOLEAN, NEW v \in 0..inst[e].version,
             LoadTransition(q, e, a, u, fresh, v)
      PROVE  IInv'
  <2>1. PICK t \in Transitions(config[e]) :
           /\ t[1] = inst[e].state /\ t[2] = a
           /\ req' = [req EXCEPT ![q] =
                         [kind |-> "transition", entity |-> e, action |-> a,
                          user |-> u, from |-> t[1], to |-> t[3],
                          version |-> inst[e].version]]
    BY <1>1 DEF LoadTransition
  <2> DEFINE r == [kind |-> "transition", entity |-> e, action |-> a,
                   user |-> u, from |-> t[1], to |-> t[3],
                   version |-> inst[e].version]
  <2>2. /\ config[e] \in ConfigType /\ inst[e] \in InstanceType
        /\ Shape(config[e], inst[e])
        /\ Reviewed(inst[e], ledger[e]) /\ Approved(inst[e], ledger[e])
    BY ConfigAssumption DEF IInv, TypeOK, InstancesShaped, LedgersComplete
  <2>3. EngineAccepts(config[e], inst[e], t[2], u, fresh, v)
    BY <1>1, <2>1 DEF LoadTransition
  <2>4. /\ r.from = t[1] /\ r.action = t[2] /\ r.to = t[3] /\ r.user = u
        /\ r.version = inst[e].version /\ r.entity = e /\ r.kind = "transition"
    BY <2>1
  <2> HIDE DEF r
  <2>5. Judged(config[e], inst[e], ledger[e], r)
    BY <2>1, <2>2, <2>3, <2>4, LoadJudges
  <2>6. req' = [req EXCEPT ![q] = r] /\ UNCHANGED <<config, inst, ledger, row>>
    BY <1>1, <2>1 DEF LoadTransition, r
  <2> QED
    BY <1>0, <2>4, <2>5, <2>6, RequestStep
<1>2. ASSUME NEW q \in Requests, NEW e \in Entities, LoadEdit(q, e)
      PROVE  IInv'
  <2> DEFINE r == [kind |-> "edit", entity |-> e, expected |-> row[e].version]
  <2>1. row[e].version \in Nat
    BY DEF IInv, TypeOK, RowType
  <2>2. EditJudged(row[e], r)
    BY <1>2, <2>1 DEF LoadEdit, EditAllowed, EditJudged
  <2>3. req' = [req EXCEPT ![q] = r] /\ UNCHANGED <<config, inst, ledger, row>>
    BY <1>2 DEF LoadEdit
  <2>4. r.entity = e /\ r.kind = "edit"
    OBVIOUS
  <2> HIDE DEF r
  <2> QED
    BY <1>0, <2>2, <2>3, <2>4, RequestStep
<1>3. ASSUME NEW q \in Requests, NEW e \in Entities, LoadDelete(q, e)
      PROVE  IInv'
  BY <1>0, <1>3, RequestStep DEF LoadDelete
<1>4. ASSUME NEW q \in Requests, CommitTransition(q)
      PROVE  IInv'
  BY <1>0, <1>4, CommitKeepsInstances, CommitKeepsRequests, CommitKeepsBacking,
     CommitKeepsEndorsed DEF IInv
<1>5. ASSUME NEW q \in Requests, CommitEdit(q)
      PROVE  IInv'
  <2> DEFINE e == req[q].entity
             w == [row[e] EXCEPT !.content = row[e].content + 1,
                                 !.version = row[e].version + 1]
  <2>1. e \in Entities
    BY <1>5 DEF CommitEdit, IInv, TypeOK, RequestType, Idle, TransitionType, EditType,
                DeleteType
  <2>2. /\ req' = [req EXCEPT ![q] = Idle] /\ row' = [row EXCEPT ![e] = w]
        /\ UNCHANGED <<config, inst, ledger>>
    BY <1>5 DEF CommitEdit
  <2>3. w.status = row[e].status /\ w.version = row[e].version + 1
        /\ row[e].version \in Nat
    BY <2>1 DEF IInv, TypeOK, RowType
  <2>4. row[e].version <= w.version
    BY <2>3
  <2> HIDE DEF w, e
  <2> QED
    BY <1>0, <2>1, <2>2, <2>3, <2>4, RowStep
<1>6. ASSUME NEW q \in Requests, CommitDelete(q)
      PROVE  IInv'
  <2> DEFINE e == req[q].entity
             w == [row[e] EXCEPT !.deleted = TRUE]
  <2>1. e \in Entities
    BY <1>6 DEF CommitDelete, IInv, TypeOK, RequestType, Idle, TransitionType, EditType,
                DeleteType
  <2>2. /\ req' = [req EXCEPT ![q] = Idle] /\ row' = [row EXCEPT ![e] = w]
        /\ UNCHANGED <<config, inst, ledger>>
    BY <1>6 DEF CommitDelete
  <2>3. w.status = row[e].status /\ w.version = row[e].version
        /\ row[e].version \in Nat
    BY <2>1 DEF IInv, TypeOK, RowType
  <2>4. row[e].version <= w.version
    BY <2>3
  <2> HIDE DEF w, e
  <2> QED
    BY <1>0, <2>1, <2>2, <2>3, <2>4, RowStep
<1>7. ASSUME NEW q \in Requests, Fail(q)
      PROVE  IInv'
  BY <1>0, <1>7, RequestStep DEF Fail, Idle
<1>8. CASE UNCHANGED vars
  BY <1>0, <1>8 DEF vars, IInv, InstancesShaped, LedgersComplete, RequestsJudged,
                    LedgerBacksInstance, ApprovedRowEndorsed
<1> QED
  BY <1>1, <1>2, <1>3, <1>4, <1>5, <1>6, <1>7, <1>8 DEF Next

\* The inductive invariant holds throughout: instances have the shape of their
\* state, the ledger holds what they rest on, requests in flight stay judged.
THEOREM Invariant == Spec => []IInv
BY IInvInitially, IInvPreserved, PTL DEF Spec

-----------------------------------------------------------------------------
\* DEC-017: maker, reviewer, approver and second approver of an instance are
\* different people, whichever stale copies their requests were judged on.
THEOREM Segregation == Spec => []SegregationOfDuties
<1>1. IInv => SegregationOfDuties
  BY DEF IInv, InstancesShaped, Shape, SegregationOfDuties
<1> QED
  BY <1>1, Invariant, PTL

\* A row reads APPROVED only with a complete, ordered and independent chain of
\* signatures on the ledger, although stale requests may write the row.
THEOREM Endorsement == Spec => []ApprovedRowEndorsed
<1>1. IInv => ApprovedRowEndorsed
  BY DEF IInv
<1> QED
  BY <1>1, Invariant, PTL

\* Every actor column is backed by an earlier signature.
THEOREM Backing == Spec => []LedgerBacksInstance
<1>1. IInv => LedgerBacksInstance
  BY DEF IInv
<1> QED
  BY <1>1, Invariant, PTL

\* Only three actions change a table, and only one of them more than the row.
LEMMA TableSteps ==
    ASSUME IInv, [Next]_vars
    PROVE  \/ UNCHANGED <<config, inst, ledger, row>>
           \/ \E q \in Requests : CommitTransition(q)
           \/ /\ \E q \in Requests : CommitEdit(q)
              /\ UNCHANGED <<config, inst, ledger>>
           \/ /\ \E q \in Requests : CommitDelete(q)
              /\ UNCHANGED <<config, inst, ledger>>
<1>1. ASSUME NEW q \in Requests, NEW e \in Entities,
             \/ \E a \in Actions, u \in Users, fresh \in BOOLEAN, v \in 0..inst[e].version :
                   LoadTransition(q, e, a, u, fresh, v)
             \/ LoadEdit(q, e)
             \/ LoadDelete(q, e)
      PROVE  UNCHANGED <<config, inst, ledger, row>>
  BY <1>1 DEF LoadTransition, LoadEdit, LoadDelete
<1>2. ASSUME NEW q \in Requests, Fail(q)
      PROVE  UNCHANGED <<config, inst, ledger, row>>
  BY <1>2 DEF Fail
<1>3. ASSUME NEW q \in Requests, CommitEdit(q) \/ CommitDelete(q)
      PROVE  UNCHANGED <<config, inst, ledger>>
  BY <1>3 DEF CommitEdit, CommitDelete
<1>4. CASE UNCHANGED vars
  BY <1>4 DEF vars
<1> QED
  BY <1>1, <1>2, <1>3, <1>4 DEF Next

\* Actor columns are written once and a finished instance never changes.
THEOREM Finality == Spec => InstanceIsFinal
<1> DEFINE Fin(i, j) == /\ \A a \in Signers : i.by[a] # NoUser => j.by[a] = i.by[a]
                        /\ i.state \in Terminal => j = i
<1>1. ASSUME IInv, [Next]_vars, NEW e \in Entities
      PROVE  Fin(inst[e], inst'[e])
  <2>1. CASE inst' = inst
    BY <2>1
  <2>2. ASSUME NEW q \in Requests, CommitTransition(q)
        PROVE  Fin(inst[e], inst'[e])
    <3> DEFINE r == req[q]
    <3>1. /\ r \in TransitionType /\ r.entity \in Entities /\ inst[e] \in InstanceType
          /\ Judged(config[r.entity], inst[r.entity], ledger[r.entity], r)
          /\ config[r.entity] \in ConfigType
          /\ inst' = [inst EXCEPT ![r.entity] = UpdateState(inst[r.entity], r)]
      BY <1>1, <2>2, CommitEffect DEF IInv, TypeOK
    <3>2. CASE e # r.entity \/ ~Matches(inst[e], r)
      BY <1>1, <3>1, <3>2 DEF IInv, TypeOK, UpdateState
    <3>3. CASE e = r.entity /\ Matches(inst[e], r)
      <4>1. inst'[e] = UpdateState(inst[e], r)
        BY <1>1, <3>1, <3>3 DEF IInv, TypeOK
      <4>2. r.action \notin inst[e].stamped
        BY <2>2, <3>3 DEF CommitTransition, TimestampTriggerPasses
      <4>3. \A a \in Signers : inst[e].by[a] # NoUser => a \in inst[e].stamped
        BY <1>1 DEF IInv, InstancesShaped, Shape
      <4>4. inst[e].state \notin Terminal
        <5> DEFINE t == <<r.from, r.action, r.to>>
        <5>1. t \in Transitions(config[e]) /\ r.from = inst[e].state
          BY <3>1, <3>3 DEF Judged, Matches
        <5> QED
          BY <3>1, <3>3, <5>1, TransitionShape
      <4> QED
        BY <3>1, <3>3, <4>1, <4>2, <4>3, <4>4, UpdateFields
    <3> QED
      BY <3>2, <3>3
  <2> QED
    BY <1>1, <2>1, <2>2, TableSteps
<1>2. IInv /\ [Next]_vars => [\A e \in Entities : Fin(inst[e], inst'[e])]_vars
  BY <1>1
<1> QED
  BY <1>2, Invariant, PTL DEF Spec, InstanceIsFinal

\* No edit reaches a row that reads APPROVED.
THEOREM Frozen == Spec => ApprovedContentFrozen
<1>1. ASSUME IInv, [Next]_vars, NEW e \in Entities, row[e].status = "APPROVED"
      PROVE  row'[e].content = row[e].content
  <2>1. CASE row' = row
    BY <2>1
  <2>2. ASSUME NEW q \in Requests, CommitTransition(q)
        PROVE  row'[e].content = row[e].content
    <3>1. /\ row' = [row EXCEPT ![req[q].entity] = HookUpdate(row[req[q].entity], req[q])]
          /\ row[e] \in RowType
      BY <1>1, <2>2, CommitEffect DEF IInv, TypeOK
    <3> QED
      BY <1>1, <3>1 DEF IInv, TypeOK, HookUpdate, RowType
  <2>3. ASSUME NEW q \in Requests, CommitEdit(q)
        PROVE  row'[e].content = row[e].content
    <3>1. req[q].entity # e
      BY <1>1, <2>3 DEF CommitEdit, EditMatches, IInv, RequestsJudged, EditJudged
    <3> QED
      BY <1>1, <2>3, <3>1 DEF CommitEdit, IInv, TypeOK
  <2>4. ASSUME NEW q \in Requests, CommitDelete(q)
        PROVE  row'[e].content = row[e].content
    BY <1>1, <2>4 DEF CommitDelete, IInv, TypeOK, RowType
  <2> QED
    BY <1>1, <2>1, <2>2, <2>3, <2>4, TableSteps
<1>2. IInv /\ [Next]_vars =>
        [\A e \in Entities : row[e].status = "APPROVED" =>
            row'[e].content = row[e].content]_vars
  BY <1>1
<1> QED
  BY <1>2, Invariant, PTL DEF Spec, ApprovedContentFrozen

-----------------------------------------------------------------------------
(* The workflow implements ApprovalPromise.                                *)

\* A pair of different members has two.
LEMMA TwoElements ==
    ASSUME NEW x, NEW y, x # y
    PROVE  IsFiniteSet({x, y}) /\ Cardinality({x, y}) = 2
<1>1. IsFiniteSet({x}) /\ Cardinality({x}) = 1
  BY FS_Singleton
<1>2. y \notin {x}
  OBVIOUS
<1>3. IsFiniteSet({x} \cup {y}) /\ Cardinality({x} \cup {y}) = 1 + 1
  BY <1>1, <1>2, FS_AddElement
<1>4. {x, y} = {x} \cup {y}
  OBVIOUS
<1> QED
  BY <1>3, <1>4

\* A triple of different members has three.
LEMMA ThreeElements ==
    ASSUME NEW x, NEW y, NEW z, x # y, x # z, y # z
    PROVE  Cardinality({x, y, z}) = 3
<1>1. IsFiniteSet({x, y}) /\ Cardinality({x, y}) = 2
  BY TwoElements
<1>2. z \notin {x, y}
  OBVIOUS
<1>3. Cardinality({x, y} \cup {z}) = 2 + 1
  BY <1>1, <1>2, FS_AddElement
<1>4. {x, y, z} = {x, y} \cup {z}
  OBVIOUS
<1> QED
  BY <1>3, <1>4

\* The cardinality of the abstract module is the one of this module.
LEMMA SameCardinality == \A S : Promise!Cardinality(S) = Cardinality(S)
BY DEF Promise!Cardinality, Cardinality

\* One update of an instance, seen through the refinement mapping.
LEMMA UpdateKeepsPromise ==
    ASSUME NEW c \in ConfigType, NEW i \in InstanceType, NEW r \in TransitionType,
           NEW L, Shape(c, i), Judged(c, i, L, r), Matches(i, r)
    PROVE  LET j == UpdateState(i, r) IN
           /\ Stage(i) = "open" /\ j.maker = i.maker
           /\ \/ Endorsers(j) = Endorsers(i) /\ Stage(j) \in {"open", "discarded"}
              \/ /\ r.user # i.maker
                 /\ Endorsers(j) = Endorsers(i) \cup {r.user}
                 /\ \/ Stage(j) = "open"
                    \/ /\ Stage(j) = "approved"
                       /\ Cardinality(Endorsers(i) \cup {r.user}) >= Needed(c)
<1> DEFINE j == UpdateState(i, r)
           t == <<r.from, r.action, r.to>>
<1>1. /\ j.state = r.to /\ j.maker = i.maker
      /\ \A a \in Signers : j.by[a] = IF a = r.action THEN r.user ELSE i.by[a]
  BY UpdateFields
<1>2. r.from = i.state /\ SoDPermits(c, i, r.action, r.user) /\ t \in Transitions(c)
  BY DEF Judged, Matches
<1>3. /\ r.from \notin Terminal
      /\ r.action = "SUBMIT" => r.from = "DRAFT" /\ r.to = "PENDING_REVIEW"
      /\ r.action = "REVIEW" => r.from = "PENDING_REVIEW" /\ r.to = "PENDING_APPROVAL"
      /\ r.action = "APPROVE" => r.from = "PENDING_APPROVAL" /\ r.to = ApproveTarget(c)
      /\ r.action = "APPROVE2" =>
            r.from = "PENDING_APPROVAL_2" /\ r.to = "APPROVED" /\ c.eyes = 6
      /\ r.action = "REJECT" => r.to = "REJECTED"
  BY <1>2, TransitionShape
<1>4. r.user # NoUser /\ r.action \in Actions
  BY UserAssumption DEF TransitionType
<1>5. Stage(i) = "open"
  BY <1>2, <1>3 DEF Stage, Terminal
<1>6. i.state \in {"DRAFT", "PENDING_REVIEW", "PENDING_APPROVAL"} => i.by["APPROVE"] = NoUser
  BY DEF Shape
<1>7. i.by["APPROVE2"] = NoUser
  BY <1>2, <1>3 DEF Shape, Terminal
<1> HIDE DEF j, t
<1>8. CASE r.action = "SUBMIT"
  BY <1>1, <1>2, <1>3, <1>5, <1>8 DEF j, Stage, Endorsers, Signers, Actions
<1>9. CASE r.action = "REVIEW"
  <2>1. Endorsers(j) = Endorsers(i) \cup {r.user}
    BY <1>1, <1>2, <1>3, <1>4, <1>9 DEF Shape, Endorsers, Signers, Actions
  <2> QED
    BY <1>1, <1>2, <1>3, <1>5, <1>9, <2>1 DEF j, Stage, SoDPermits
<1>10. CASE r.action = "APPROVE"
  <2>1. Endorsers(j) = Endorsers(i) \cup {r.user}
    BY <1>1, <1>2, <1>3, <1>4, <1>6, <1>10 DEF Endorsers, Signers, Actions
  <2>2. Endorsers(i) \cup {r.user} = {i.by["REVIEW"], r.user}
    BY <1>2, <1>3, <1>6, <1>7, <1>10 DEF Endorsers, Shape
  <2>3. r.user # i.maker /\ r.user # i.by["REVIEW"]
    BY <1>2, <1>10 DEF SoDPermits
  <2>4. CASE c.eyes = 6
    BY <1>1, <1>3, <1>5, <1>10, <2>1, <2>3, <2>4 DEF j, Stage, ApproveTarget
  <2>5. CASE c.eyes # 6
    <3>1. Cardinality(Endorsers(i) \cup {r.user}) >= Needed(c)
      <4>1. Cardinality({i.by["REVIEW"], r.user}) = 2
        BY <2>3, TwoElements
      <4> QED
        BY <2>2, <2>5, <4>1 DEF Needed
    <3> QED
      BY <1>1, <1>3, <1>5, <1>10, <2>1, <2>3, <2>5, <3>1 DEF j, Stage, ApproveTarget
  <2> QED
    BY <2>4, <2>5
<1>11. CASE r.action = "APPROVE2"
  <2>1. Endorsers(j) = Endorsers(i) \cup {r.user}
    BY <1>1, <1>2, <1>3, <1>4, <1>7, <1>11 DEF Endorsers, Signers, Actions
  <2>2. Endorsers(i) \cup {r.user} = {i.by["REVIEW"], i.by["APPROVE"], r.user}
    BY <1>2, <1>3, <1>7, <1>11 DEF Endorsers, Shape
  <2>3. /\ r.user # i.maker /\ r.user # i.by["REVIEW"]
        /\ c.distinctApprover2 => r.user # i.by["APPROVE"]
        /\ i.by["REVIEW"] # i.by["APPROVE"]
    BY <1>2, <1>3, <1>11 DEF SoDPermits, Shape
  <2>4. Cardinality(Endorsers(i) \cup {r.user}) >= Needed(c)
    <3>1. CASE r.user = i.by["APPROVE"]
      <4>1. Endorsers(i) \cup {r.user} = {i.by["REVIEW"], r.user}
        BY <2>2, <3>1
      <4>2. Cardinality({i.by["REVIEW"], r.user}) = 2
        BY <2>3, TwoElements
      <4>3. Needed(c) = 2
        BY <2>3, <3>1 DEF Needed, ConfigType
      <4> QED
        BY <4>1, <4>2, <4>3
    <3>2. CASE r.user # i.by["APPROVE"]
      <4>1. Cardinality({i.by["REVIEW"], i.by["APPROVE"], r.user}) = 3
        BY <2>3, <3>2, ThreeElements
      <4> QED
        BY <2>2, <4>1 DEF Needed
    <3> QED
      BY <3>1, <3>2
  <2> QED
    BY <1>1, <1>3, <1>5, <1>11, <2>1, <2>3, <2>4 DEF j, Stage
<1>12. CASE r.action = "REJECT"
  BY <1>1, <1>3, <1>5, <1>12 DEF j, Stage, Endorsers, Signers, Actions
<1> QED
  BY <1>4, <1>8, <1>9, <1>10, <1>11, <1>12 DEF Actions

\* The detailed workflow, with its stale requests, refines the promise.
THEOREM Refinement == Spec => KeepsPromise
<1>1. Init => Promise!Init
  <2> SUFFICES ASSUME Init PROVE Promise!Init
    OBVIOUS
  <2>1. \A e \in Entities : /\ inst[e].state = "DRAFT" /\ inst[e].maker \in Users
                            /\ \A a \in Signers : inst[e].by[a] = NoUser
    BY DEF Init
  <2>2. \A e \in Entities : Endorsers(inst[e]) = {} /\ Stage(inst[e]) = "open"
    BY <2>1 DEF Endorsers, Stage, Signers, Actions
  <2>3. \A e \in Entities : Needed(config[e]) \in {2, 3}
    BY DEF Needed
  <2> QED
    BY <2>1, <2>2, <2>3 DEF Promise!Init
<1>2. ASSUME IInv, [Next]_vars
      PROVE  [Promise!Next]_(Promise!vars)
  <2>1. CASE UNCHANGED <<config, inst>>
    BY <2>1 DEF Promise!vars
  <2>2. ASSUME NEW q \in Requests, CommitTransition(q)
        PROVE  [Promise!Next]_(Promise!vars)
    <3> DEFINE r == req[q]
               e == r.entity
               j == UpdateState(inst[e], r)
    <3>1. /\ r \in TransitionType /\ e \in Entities /\ inst[e] \in InstanceType
          /\ config[e] \in ConfigType
          /\ Judged(config[e], inst[e], ledger[e], r)
          /\ inst' = [inst EXCEPT ![e] = j]
          /\ config' = config
      BY <1>2, <2>2, CommitEffect
    <3>2. \A d \in Entities : inst'[d] = IF d = e THEN j ELSE inst[d]
      BY <1>2, <3>1 DEF IInv, TypeOK
    <3>3. Shape(config[e], inst[e])
      BY <1>2, <3>1 DEF IInv, InstancesShaped
    <3>4. CASE ~Matches(inst[e], r)
      <4>1. \A d \in Entities : inst'[d] = inst[d]
        BY <3>2, <3>4 DEF UpdateState
      <4> QED
        BY <3>1, <4>1 DEF Promise!vars
    <3>5. CASE Matches(inst[e], r)
      <4>1. /\ Stage(inst[e]) = "open" /\ j.maker = inst[e].maker
            /\ \/ /\ Endorsers(j) = Endorsers(inst[e])
                  /\ Stage(j) \in {"open", "discarded"}
               \/ /\ r.user # inst[e].maker
                  /\ Endorsers(j) = Endorsers(inst[e]) \cup {r.user}
                  /\ \/ Stage(j) = "open"
                     \/ /\ Stage(j) = "approved"
                        /\ Cardinality(Endorsers(inst[e]) \cup {r.user})
                              >= Needed(config[e])
        BY <3>1, <3>3, <3>5, UpdateKeepsPromise
      <4>2. r.user \in Users
        BY <3>1 DEF TransitionType
      <4> HIDE DEF j, e, r
      <4>3. /\ [d \in Entities |-> inst'[d].maker] = [d \in Entities |-> inst[d].maker]
            /\ [d \in Entities |-> Needed(config'[d])] = [d \in Entities |-> Needed(config[d])]
            /\ [d \in Entities |-> Endorsers(inst'[d])] =
                 [[d \in Entities |-> Endorsers(inst[d])] EXCEPT ![e] = Endorsers(j)]
            /\ [d \in Entities |-> Stage(inst'[d])] =
                 [[d \in Entities |-> Stage(inst[d])] EXCEPT ![e] = Stage(j)]
        <5>1. \A d \in Entities :
                 /\ inst'[d].maker = inst[d].maker
                 /\ Endorsers(inst'[d]) = IF d = e THEN Endorsers(j) ELSE Endorsers(inst[d])
                 /\ Stage(inst'[d]) = IF d = e THEN Stage(j) ELSE Stage(inst[d])
          BY <3>2, <4>1
        <5> QED
          BY <3>1, <5>1, Zenon
      <4>4. CASE Endorsers(j) = Endorsers(inst[e]) /\ Stage(j) = "open"
        BY <4>1, <4>3, <4>4 DEF Promise!vars
      <4>5. CASE Endorsers(j) = Endorsers(inst[e]) /\ Stage(j) = "discarded"
        <5>1. Promise!Discard(e)
          BY <3>1, <4>1, <4>3, <4>5 DEF Promise!Discard
        <5> QED
          BY <3>1, <5>1 DEF Promise!Next
      <4>6. CASE /\ r.user # inst[e].maker
                 /\ Endorsers(j) = Endorsers(inst[e]) \cup {r.user}
                 /\ \/ Stage(j) = "open"
                    \/ /\ Stage(j) = "approved"
                       /\ Cardinality(Endorsers(inst[e]) \cup {r.user})
                             >= Needed(config[e])
        <5> DEFINE E == [d \in Entities |-> Endorsers(inst[d])]
                   S == [d \in Entities |-> Stage(inst[d])]
                   N == [d \in Entities |-> Needed(config[d])]
        <5>1. E[e] = Endorsers(inst[e]) /\ S[e] = Stage(inst[e]) /\ N[e] = Needed(config[e])
          BY <3>1
        <5>2. /\ S[e] = "open" /\ r.user # [d \in Entities |-> inst[d].maker][e]
              /\ [d \in Entities |-> Endorsers(inst'[d])] = [E EXCEPT ![e] = E[e] \cup {r.user}]
          BY <3>1, <4>1, <4>3, <4>6, <5>1
        <5>3. \/ [d \in Entities |-> Stage(inst'[d])] = S
              \/ /\ Cardinality(E[e] \cup {r.user}) >= N[e]
                 /\ [d \in Entities |-> Stage(inst'[d])] = [S EXCEPT ![e] = "approved"]
          BY <3>1, <4>1, <4>3, <4>6, <5>1
        <5>4. Promise!Endorse(e, r.user)
          BY <4>3, <5>2, <5>3, SameCardinality, Zenon DEF Promise!Endorse
        <5> QED
          BY <3>1, <4>2, <5>4 DEF Promise!Next
      <4> QED
        BY <4>1, <4>4, <4>5, <4>6
    <3> QED
      BY <3>4, <3>5
  <2> QED
    BY <1>2, <2>1, <2>2, TableSteps
<1> QED
  BY <1>1, <1>2, Invariant, PTL DEF Spec, KeepsPromise, Promise!Spec

=============================================================================
