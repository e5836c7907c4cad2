------------------------------ MODULE Workflow ------------------------------
(***************************************************************************)
(* The Maker-Reviewer-Approver workflow of BLIPS (internal/workflow) and   *)
(* the master-data row it governs, for which mst.bobot_skenario stands.    *)
(*                                                                         *)
(* An HTTP request that performs a transition has two steps.  It loads     *)
(* sys.workflow_instance and runs the engine's guards on the loaded copy   *)
(* OUTSIDE any transaction; then one SERIALIZABLE transaction updates the  *)
(* instance WHERE row_version = <loaded>, appends the signature and the    *)
(* audit event, and calls the entity hook, which copies the new state into *)
(* the governed row.  Edits and deletions of the governed row have the     *)
(* same two steps.  Requests interleave between their steps, and any       *)
(* request may be lost between them.                                       *)
(***************************************************************************)
EXTENDS Naturals, FiniteSets

CONSTANTS
    Users,      \* sec.user
    Entities,   \* governed rows, one workflow instance each (uq_wf_entity)
    Requests,   \* slots for HTTP requests being served at the same time
    NoUser,     \* SQL NULL in an actor column
    Configs,    \* values a WORKFLOW_CONFIG_* row of sys.config may have
    MaxEdits    \* bound on the edits of one row

States  == {"DRAFT", "PENDING_REVIEW", "PENDING_APPROVAL",
            "PENDING_APPROVAL_2", "APPROVED", "REJECTED"}
Terminal == {"APPROVED", "REJECTED"}

\* The actions Service exposes.  The engine also knows RETRACT, which no
\* service method and no route performs.
Actions == {"SUBMIT", "REVIEW", "APPROVE", "APPROVE2", "REJECT"}
\* Those that leave an actor in a column of the instance.
Signers == Actions \ {"SUBMIT"}

ConfigType == [eyes: {4, 6}, distinctApprover2: BOOLEAN, stepUp: SUBSET Actions]

ASSUME ConfigAssumption == Configs \subseteq ConfigType /\ Configs # {}
ASSUME UserAssumption   == NoUser \notin Users /\ Users # {}
ASSUME EditAssumption   == MaxEdits \in Nat

VARIABLES
    config,   \* the configuration Load returns for each entity's type
    inst,     \* sys.workflow_instance
    ledger,   \* sys.workflow_signature, with the Before part of its audit event
    row,      \* the governed row
    req       \* the requests in flight

vars == <<config, inst, ledger, row, req>>

InstanceType ==
    [state: States, maker: Users, by: [Signers -> Users \cup {NoUser}],
     stamped: SUBSET Actions, version: Nat]

SignatureType == [action: Actions, user: Users, from: States, version: Nat]

RowType == [status: States, content: Nat, version: Nat, deleted: BOOLEAN]

Idle == [kind |-> "idle"]

TransitionType == [kind: {"transition"}, entity: Entities, action: Actions,
                   user: Users, from: States, to: States, version: Nat]
EditType   == [kind: {"edit"}, entity: Entities, expected: Nat]
DeleteType == [kind: {"delete"}, entity: Entities]

RequestType == {Idle} \cup TransitionType \cup EditType \cup DeleteType

-----------------------------------------------------------------------------
(* The engine: pure functions of a configuration and a loaded instance.    *)

\* Mutants of ApproveTarget: a misspelt state, a forgotten second approval.
ApproveTargetMisspelt(c) == IF c.eyes = 6 THEN "PENDING_APPROVAL2" ELSE "APPROVED"
ApproveTargetFourEyes(c) == "APPROVED"

ApproveTarget(c) == IF c.eyes = 6 THEN "PENDING_APPROVAL_2" ELSE "APPROVED"

BaseTransitions(c) ==
    {<<"DRAFT", "SUBMIT", "PENDING_REVIEW">>,
     <<"PENDING_REVIEW", "REVIEW", "PENDING_APPROVAL">>,
     <<"PENDING_REVIEW", "REJECT", "REJECTED">>,
     <<"PENDING_APPROVAL", "APPROVE", ApproveTarget(c)>>,
     <<"PENDING_APPROVAL", "REJECT", "REJECTED">>}

SixEyesTransitions ==
    {<<"PENDING_APPROVAL_2", "APPROVE2", "APPROVED">>,
     <<"PENDING_APPROVAL_2", "REJECT", "REJECTED">>}

Transitions(c) ==
    BaseTransitions(c) \cup IF c.eyes = 6 THEN SixEyesTransitions ELSE {}

\* Mutant of SoDPermits: only the maker is excluded.
SoDPermitsMakerOnly(c, i, a, u) == u # i.maker

\* checkSoD: may u perform action a on the loaded instance i?
SoDPermits(c, i, a, u) ==
    CASE a = "REVIEW"   -> u # i.maker
      [] a = "APPROVE"  -> u # i.maker /\ u # i.by["REVIEW"]
      [] a = "APPROVE2" -> /\ u # i.maker /\ u # i.by["REVIEW"]
                           /\ c.distinctApprover2 => u # i.by["APPROVE"]
      [] a = "REJECT"   ->
            CASE i.state = "PENDING_REVIEW"     -> u # i.maker
              [] i.state = "PENDING_APPROVAL"   -> u # i.maker /\ u # i.by["REVIEW"]
              [] i.state = "PENDING_APPROVAL_2" ->
                    c.distinctApprover2 =>
                        /\ u # i.maker
                        /\ u # i.by["REVIEW"]
                        /\ u # i.by["APPROVE"]
              [] OTHER -> TRUE
      [] OTHER -> TRUE

\* Engine.Transition: the guards that precede the computation of the result.
\* The row version of the request body is optional: 0 stands for none.
EngineAccepts(c, i, a, u, fresh, rowVersion) ==
    /\ i.state \notin Terminal
    /\ SoDPermits(c, i, a, u)
    /\ a \in c.stepUp => fresh
    /\ rowVersion # 0 => rowVersion = i.version

-----------------------------------------------------------------------------
Init ==
    /\ config \in [Entities -> Configs]
    /\ inst \in [Entities -> [state: {"DRAFT"}, maker: Users,
                             by: [Signers -> {NoUser}],
                             stamped: {{}}, version: {1}]]
    /\ ledger = [e \in Entities |-> {}]
    /\ row = [e \in Entities |->
                [status |-> "DRAFT", content |-> 0, version |-> 1, deleted |-> FALSE]]
    /\ req = [q \in Requests |-> Idle]

\* performTransition up to the transaction: the instance is read, and judged,
\* outside it.
LoadTransition(q, e, a, u, fresh, rowVersion) ==
    /\ req[q] = Idle
    /\ EngineAccepts(config[e], inst[e], a, u, fresh, rowVersion)
    /\ \E t \in Transitions(config[e]) :
         /\ t[1] = inst[e].state /\ t[2] = a
         /\ req' = [req EXCEPT ![q] =
                      [kind |-> "transition", entity |-> e, action |-> a,
                       user |-> u, from |-> t[1], to |-> t[3],
                       version |-> inst[e].version]]
    /\ UNCHANGED <<config, inst, ledger, row>>

\* UpdateState: UPDATE ... WHERE row_version = r.version.  An UPDATE that
\* matches no row is not an error: nobody looks at the rows affected.  The
\* triggers increment row_version and refuse to overwrite a timestamp.
\* MatchesById is a mutant: the WHERE clause lacks the row version.
MatchesById(i, r) == TRUE
Matches(i, r) == i.version = r.version
TimestampTriggerPasses(i, r) == Matches(i, r) => r.action \notin i.stamped
UpdateState(i, r) ==
    IF ~Matches(i, r) THEN i
    ELSE [i EXCEPT !.state = r.to,
                   !.by = [s \in Signers |-> IF s = r.action THEN r.user ELSE @[s]],
                   !.stamped = @ \cup {r.action},
                   !.version = @ + 1]

\* Mutant of Signature: every signature is labelled with the first action.
SignatureUnlabelled(r) == [action |-> "SUBMIT", user |-> r.user,
                           from |-> r.from, version |-> r.version]

\* InsertSignature and the audit event of the same transaction.
Signature(r) == [action |-> r.action, user |-> r.user,
                 from |-> r.from, version |-> r.version]

\* WorkflowHook.BeforeCommit: the row must exist; it gets the new state.
HookFinds(w) == ~w.deleted
HookUpdate(w, r) == [w EXCEPT !.status = r.to, !.version = @ + 1]

\* The transaction of performTransition, from BeginTx to Commit.
CommitTransition(q) ==
    LET r == req[q] e == r.entity IN
    /\ r.kind = "transition"
    /\ TimestampTriggerPasses(inst[e], r)
    /\ HookFinds(row[e])
    /\ inst' = [inst EXCEPT ![e] = UpdateState(@, r)]
    /\ ledger' = [ledger EXCEPT ![e] = @ \cup {Signature(r)}]
    /\ row' = [row EXCEPT ![e] = HookUpdate(@, r)]
    /\ req' = [req EXCEPT ![q] = Idle]
    /\ UNCHANGED config

\* Service.Update of the governed row up to its transaction.  The client
\* sends the row version of a copy it has read; versions only grow, so an
\* older one than the current version can only end in a conflict (Fail).
EditAllowed(w) == ~w.deleted /\ w.status # "APPROVED"
LoadEdit(q, e) ==
    /\ req[q] = Idle
    /\ EditAllowed(row[e])
    /\ row[e].content < MaxEdits
    /\ req' = [req EXCEPT ![q] = [kind |-> "edit", entity |-> e,
                                  expected |-> row[e].version]]
    /\ UNCHANGED <<config, inst, ledger, row>>

\* Repository.Update and the commit; a version that moved on is a conflict
\* and leaves everything as it was (Fail).
\* EditMatchesById is a mutant: the WHERE clause lacks the row version.
EditMatchesById(w, r) == ~w.deleted
EditMatches(w, r) == w.version = r.expected /\ ~w.deleted
CommitEdit(q) ==
    LET r == req[q] e == r.entity IN
    /\ r.kind = "edit"
    /\ EditMatches(row[e], r)
    /\ row' = [row EXCEPT ![e].content = @ + 1, ![e].version = @ + 1]
    /\ req' = [req EXCEPT ![q] = Idle]
    /\ UNCHANGED <<config, inst, ledger>>

\* Service.SoftDelete: the row must exist when it is read; no status guard
\* and no version guard.
LoadDelete(q, e) ==
    /\ req[q] = Idle
    /\ ~row[e].deleted
    /\ req' = [req EXCEPT ![q] = [kind |-> "delete", entity |-> e]]
    /\ UNCHANGED <<config, inst, ledger, row>>

CommitDelete(q) ==
    LET r == req[q] IN
    /\ r.kind = "delete"
    /\ row' = [row EXCEPT ![r.entity].deleted = TRUE]
    /\ req' = [req EXCEPT ![q] = Idle]
    /\ UNCHANGED <<config, inst, ledger>>

\* A request that goes no further: an error of the database (a serialization
\* failure, a trigger, a conflict), of the hook, or the death of the server.
\* Its transaction, if it had one, is rolled back.
Fail(q) ==
    /\ req[q] # Idle
    /\ req' = [req EXCEPT ![q] = Idle]
    /\ UNCHANGED <<config, inst, ledger, row>>

Next ==
    \E q \in Requests :
        \/ \E e \in Entities :
              \/ \E a \in Actions, u \in Users, fresh \in BOOLEAN, v \in 0..inst[e].version :
                    LoadTransition(q, e, a, u, fresh, v)
              \/ LoadEdit(q, e)
              \/ LoadDelete(q, e)
        \/ CommitTransition(q)
        \/ CommitEdit(q)
        \/ CommitDelete(q)
        \/ Fail(q)

Spec == Init /\ [][Next]_vars

-----------------------------------------------------------------------------
\* Every variable holds values of its columns' types.
TypeOK ==
    /\ config \in [Entities -> Configs]
    /\ inst \in [Entities -> InstanceType]
    /\ ledger \in [Entities -> SUBSET SignatureType]
    /\ row \in [Entities -> RowType]
    /\ req \in [Requests -> RequestType]

\* DEC-017 on the columns of the instance, whatever stale copies the requests
\* were judged on: the reviewer is not the maker, the approver is neither, the
\* second approver is neither (nor the first one, if so configured).
SegregationOfDuties ==
    \A e \in Entities :
        LET i == inst[e] b == i.by IN
        /\ i.maker \notin {b["REVIEW"], b["APPROVE"], b["APPROVE2"]}
        /\ b["REVIEW"] # NoUser => b["REVIEW"] \notin {b["APPROVE"], b["APPROVE2"]}
        /\ config[e].distinctApprover2 /\ b["APPROVE"] # NoUser
              => b["APPROVE"] # b["APPROVE2"]

\* s1 and s2 are signatures for these actions, the second made later.
SignedInOrder(s1, a1, s2, a2) ==
    s1.action = a1 /\ s2.action = a2 /\ s1.version < s2.version

\* The governed row and the ledger: although a stale transition may write the
\* row without moving the instance, a row that reads APPROVED has the whole
\* chain of signatures, by independent users, in the order of the steps.
ApprovedRowEndorsed ==
    \A e \in Entities : row[e].status = "APPROVED" =>
        LET maker == inst[e].maker IN
        \E r, a \in ledger[e] :
            /\ SignedInOrder(r, "REVIEW", a, "APPROVE")
            /\ r.user # maker
            /\ a.user \notin {maker, r.user}
            /\ config[e].eyes = 6 =>
                 \E b \in ledger[e] :
                     /\ SignedInOrder(a, "APPROVE", b, "APPROVE2")
                     /\ b.user \notin {maker, r.user}
                     /\ config[e].distinctApprover2 => b.user # a.user

\* The instance and the ledger: every actor column is backed by that user's
\* signature of that action, made at a version before the current one.
LedgerBacksInstance ==
    \A e \in Entities, a \in Signers :
        inst[e].by[a] # NoUser =>
            \E s \in ledger[e] : /\ s.action = a
                                 /\ s.user = inst[e].by[a]
                                 /\ s.version < inst[e].version

\* However requests interleave, an actor column is written at most once, and
\* an instance that reached APPROVED or REJECTED never changes again.
InstanceIsFinal ==
    [][\A e \in Entities :
          /\ \A a \in Signers :
                inst[e].by[a] # NoUser => inst'[e].by[a] = inst[e].by[a]
          /\ inst[e].state \in Terminal => inst'[e] = inst[e]]_vars

\* The content of a row does not change while the row reads APPROVED, even by
\* an edit that was admitted when it did not yet.
ApprovedContentFrozen ==
    [][\A e \in Entities :
          row[e].status = "APPROVED" => row'[e].content = row[e].content]_vars

\* The instance keeps the promise of ApprovalPromise: each commit is an
\* endorsement, a discard, or changes nothing the promise speaks of.
Endorsers(i) == {i.by["REVIEW"], i.by["APPROVE"], i.by["APPROVE2"]} \ {NoUser}
Stage(i) == CASE i.state = "APPROVED" -> "approved"
              [] i.state = "REJECTED" -> "discarded"
              [] OTHER -> "open"
Needed(c) == IF c.eyes = 6 /\ c.distinctApprover2 THEN 3 ELSE 2

Promise == INSTANCE ApprovalPromise WITH
    maker     <- [e \in Entities |-> inst[e].maker],
    needed    <- [e \in Entities |-> Needed(config[e])],
    endorsers <- [e \in Entities |-> Endorsers(inst[e])],
    stage     <- [e \in Entities |-> Stage(inst[e])]

KeepsPromise == Promise!Spec

\* What the hook is for, in the words of bobotskenario/repo.go: it keeps the
\* row's workflow_status in sync with sys.workflow_instance.
RowInSync == \A e \in Entities : row[e].status = inst[e].state

=============================================================================
