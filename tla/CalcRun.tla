------------------------------ MODULE CalcRun ------------------------------
(***************************************************************************)
(* The life of an ECL calculation run (internal/ecl/calcrun, and the bulk  *)
(* computation of internal/ecl/core that fills it): created, started,      *)
(* computed by Asynq workers, cancelled, or sealed by two people.          *)
(*                                                                         *)
(* Every service call reads ecl.calc_run outside any transaction, judges   *)
(* what it read, and then updates the row BY ID in a READ COMMITTED        *)
(* transaction.  Only the CHECK constraints and the trigger of the table   *)
(* look at the row again.  Workers read and write it the same way, several *)
(* of them may serve the same run, and a task may be delivered again.      *)
(***************************************************************************)
EXTENDS Naturals, FiniteSets

CONSTANTS
    Runs,         \* identifiers of calculation runs
    Periodes,     \* accounting periods
    Users,        \* sec.user
    NoUser,       \* SQL NULL in an actor column
    Instruments,  \* mst.instrumen
    Book,         \* the instruments active throughout
    Lineless,     \* instruments whose computation may end well without a row in
                  \* ecl.calc_result_line: FVTPL, look-through funds, POCI
                  \* without a CA-EIR schedule, deposits that the guarantee of
                  \* the LPS covers in full.  Which of them do depends on other
                  \* tables and on the date
    Requests,     \* slots for HTTP requests being served at the same time
    Workers       \* slots of the Asynq server

ASSUME UserAssumption       == NoUser \notin Users
ASSUME InstrumentAssumption == Book \subseteq Instruments /\ Lineless \subseteq Instruments

\* SEAL_REJECTED is declared in the code and never set.
Statuses == {"DRAFT", "IN_PROGRESS", "COMPLETED", "COMPLETED_WITH_ERRORS",
             "SEAL_REQUESTED", "SEALED", "CANCELLED"}

VARIABLES
    run,     \* ecl.calc_run
    lines,   \* ecl.calc_result_line: the instruments with a line, per run
    spared,  \* history: those a task of the run computed without a line
    trail,   \* who has an audit event CALC_RUN.SEAL_REQUESTED, per run
    active,  \* instruments ListActiveByScope returns
    req,     \* HTTP requests in flight
    queue,   \* tasks waiting in Redis, per run
    worker   \* tasks being handled

vars == <<run, lines, spared, trail, active, req, queue, worker>>

Absent == [status |-> "ABSENT"]
\* snapshot says whether parameter_snapshot_jsonb is set, errors whether
\* error_count > 0; sealer stands for sealed_by and sealed_at.
RowType == [status: Statuses, periode: Periodes, creator: Users,
            requester: Users \cup {NoUser}, sealer: Users \cup {NoUser},
            snapshot: BOOLEAN, errors: BOOLEAN]

Operations == {"start", "cancel", "requestSeal", "approveSeal", "rejectSeal"}
Idle == [kind |-> "idle"]
CreateType  == [kind: {"create"}, run: Runs, user: Users, periode: Periodes]
OpType      == [kind: Operations, run: Runs, user: Users]
ComputeType == [kind: {"compute"}, run: Runs, instr: Instruments]
RequestType == {Idle} \cup CreateType \cup OpType \cup ComputeType

\* A worker has still to look at todo, is computing busy, and has seen an
\* instrument fail or its context end; or it is about to mark the run completed.
TaskType == [kind: {"computing", "marking"}, run: Runs, todo: SUBSET Instruments,
             busy: SUBSET Instruments, failed: BOOLEAN, stopped: BOOLEAN]

Exists(r)   == run[r] # Absent
IsSealed(r) == Exists(r) /\ run[r].status = "SEALED"
CheckExisting(p, status) ==
    \E r \in Runs : Exists(r) /\ run[r].periode = p /\ run[r].status = status

-----------------------------------------------------------------------------
(* The table: what repo.go writes, and what the database accepts.          *)

UpdateStartFields(w) == [w EXCEPT !.status = "IN_PROGRESS", !.snapshot = TRUE]
UpdateProgress(w)              == [w EXCEPT !.errors = FALSE]
\* Mutant of UpdateCompletion: a run with failed instruments counts as completed.
UpdateCompletionAsIs(w, failed) == [w EXCEPT !.status = "COMPLETED"]
UpdateCompletion(w, failed)    ==
    [w EXCEPT !.status = IF failed THEN "COMPLETED_WITH_ERRORS" ELSE "COMPLETED",
              !.errors = failed]
UpdateSealRequest(w, u) == [w EXCEPT !.status = "SEAL_REQUESTED", !.requester = u]
UpdateSealApprove(w, u) == [w EXCEPT !.status = "SEALED", !.sealer = u]
\* Mutant of UpdateSealReject: a state the table does not know.
UpdateSealRejectUnknown(w) == [w EXCEPT !.status = "SEAL_REJECTED", !.requester = NoUser]
UpdateSealReject(w)     == [w EXCEPT !.status = "COMPLETED", !.requester = NoUser]
UpdateCancel(w)         == [w EXCEPT !.status = "CANCELLED"]

\* Mutant of SoDSealCheck: only the creator is looked at.
SoDSealCheckCreator(w) == w.sealer # w.creator
\* chk_ecl_calc_run_sod_seal; IS DISTINCT FROM lets a NULL requester pass.
SoDSealCheck(w) == w.sealer # NoUser => w.sealer \notin {w.creator, w.requester}
\* chk_ecl_calc_run_sealed_consistency
ConsistencyCheck(w) == (w.status = "SEALED") <=> (w.sealer # NoUser)
\* Mutant of SealedGuard: the trigger of migration 000029, on another table.
SealedGuardElsewhere(old, new) == TRUE
\* trg_ecl_calc_run_sealed_guard: no business column of a sealed row changes.
SealedGuard(old, new) == old.sealer # NoUser => new = old

Write(r, new) ==
    /\ SoDSealCheck(new)
    /\ ConsistencyCheck(new)
    /\ SealedGuard(run[r], new)
    /\ run' = [run EXCEPT ![r] = new]

-----------------------------------------------------------------------------
Init ==
    /\ run = [r \in Runs |-> Absent]
    /\ lines = [r \in Runs |-> {}]
    /\ spared = [r \in Runs |-> {}]
    /\ trail = [r \in Runs |-> {}]
    /\ active = Book
    /\ req = [q \in Requests |-> Idle]
    /\ queue = [r \in Runs |-> 0]
    /\ worker = [k \in Workers |-> Idle]

\* A request that found the row acceptable waits for its transaction.  A closed
\* period or a missing parameter only make the call fail, which it always may.
Accept(q, request) ==
    /\ req[q] = Idle
    /\ req' = [req EXCEPT ![q] = request]
    /\ UNCHANGED <<run, lines, spared, trail, active, queue, worker>>

Done(q) == req' = [req EXCEPT ![q] = Idle]

\* Service.Create
LoadCreate(q, r, u, p) ==
    /\ ~Exists(r)
    /\ ~CheckExisting(p, "IN_PROGRESS")
    /\ ~CheckExisting(p, "SEALED")
    /\ Accept(q, [kind |-> "create", run |-> r, user |-> u, periode |-> p])

CommitCreate(q) ==
    /\ req[q].kind = "create"
    /\ ~Exists(req[q].run)       \* a fresh UUID
    /\ run' = [run EXCEPT ![req[q].run] =
                 [status |-> "DRAFT", periode |-> req[q].periode, creator |-> req[q].user,
                  requester |-> NoUser, sealer |-> NoUser, snapshot |-> FALSE, errors |-> FALSE]]
    /\ Done(q)
    /\ UNCHANGED <<lines, spared, trail, active, queue, worker>>

\* The guards of Service.Start, Cancel, RequestSeal, ApproveSeal and RejectSeal
\* on the row that was read.
CanStart(w, u)       == w.status = "DRAFT"
CanCancel(w, u)      == w.status \in {"DRAFT", "IN_PROGRESS"} /\ w.creator = u
CanRequestSeal(w, u) == /\ w.status = "COMPLETED" /\ ~w.errors
                        /\ ~CheckExisting(w.periode, "SEALED")
\* Mutant of CanApproveSeal: separation of duties is left to the CHECK constraint.
CanApproveSealByAnyone(w, u) == w.status = "SEAL_REQUESTED"
CanApproveSeal(w, u) == w.status = "SEAL_REQUESTED" /\ u \notin {w.creator, w.requester}
CanRejectSeal(w, u)  == w.status = "SEAL_REQUESTED" /\ u # w.requester

LoadOp(q, op, r, u) ==
    /\ Exists(r)
    /\ CASE op = "start"       -> CanStart(run[r], u)
         [] op = "cancel"      -> CanCancel(run[r], u)
         [] op = "requestSeal" -> CanRequestSeal(run[r], u)
         [] op = "approveSeal" -> CanApproveSeal(run[r], u)
         [] op = "rejectSeal"  -> CanRejectSeal(run[r], u)
    /\ Accept(q, [kind |-> op, run |-> r, user |-> u])

\* The snapshot of the parameters was taken before the transaction.  The task is
\* enqueued after the commit, and a failure to do so is only logged.
CommitStart(q) ==
    LET r == req[q].run IN
    /\ req[q].kind = "start"
    /\ Write(r, UpdateStartFields(run[r]))
    /\ \/ queue' = [queue EXCEPT ![r] = @ + 1]
       \/ queue' = queue
    /\ Done(q)
    /\ UNCHANGED <<lines, spared, trail, active, worker>>

CommitCancel(q) ==
    /\ req[q].kind = "cancel"
    /\ Write(req[q].run, UpdateCancel(run[req[q].run]))
    /\ Done(q)
    /\ UNCHANGED <<lines, spared, trail, active, queue, worker>>

CommitRequestSeal(q) ==
    LET r == req[q].run u == req[q].user IN
    /\ req[q].kind = "requestSeal"
    /\ Write(r, UpdateSealRequest(run[r], u))
    /\ trail' = [trail EXCEPT ![r] = @ \cup {u}]
    /\ Done(q)
    /\ UNCHANGED <<lines, spared, active, queue, worker>>

CommitApproveSeal(q) ==
    /\ req[q].kind = "approveSeal"
    /\ Write(req[q].run, UpdateSealApprove(run[req[q].run], req[q].user))
    /\ Done(q)
    /\ UNCHANGED <<lines, spared, trail, active, queue, worker>>

CommitRejectSeal(q) ==
    /\ req[q].kind = "rejectSeal"
    /\ Write(req[q].run, UpdateSealReject(run[req[q].run]))
    /\ Done(q)
    /\ UNCHANGED <<lines, spared, trail, active, queue, worker>>

\* POST /ecl/compute with persist: the seal is checked, the instrument
\* computed, and the line inserted without looking at the run again.
\* UNIQUE (calc_run_id, instrumen_id) refuses a second line.
LoadCompute(q, r, i) ==
    /\ Exists(r) /\ ~IsSealed(r)   \* whether i is active is not asked
    /\ Accept(q, [kind |-> "compute", run |-> r, instr |-> i])

InsertResultLine(r, i) ==
    /\ i \notin lines[r]
    /\ lines' = [lines EXCEPT ![r] = @ \cup {i}]

CommitCompute(q) ==
    /\ req[q].kind = "compute"
    /\ InsertResultLine(req[q].run, req[q].instr)
    /\ Done(q)
    /\ UNCHANGED <<run, spared, trail, active, queue, worker>>

\* A request that goes no further: refused by the database, or lost, or, of a
\* single computation, ended well without a line.
Fail(q) ==
    /\ req[q] # Idle
    /\ Done(q)
    /\ UNCHANGED <<run, lines, spared, trail, active, queue, worker>>

-----------------------------------------------------------------------------
(* The worker: calcrun.Worker.Handle around core.ComputeBulk.              *)

\* A task that ends in an error, or whose worker died, is delivered again
\* until Asynq gives it up.
Redeliver(r) ==
    \/ queue' = [queue EXCEPT ![r] = @ + 1]
    \/ queue' = queue

Becomes(k, task) == worker' = [worker EXCEPT ![k] = task]

PickUp(k, r) ==
    /\ worker[k] = Idle
    /\ queue[r] > 0
    /\ ~IsSealed(r)
    /\ queue' = [queue EXCEPT ![r] = @ - 1]
    /\ Becomes(k, [kind |-> "computing", run |-> r, todo |-> active, busy |-> {},
                   failed |-> FALSE, stopped |-> FALSE])
    /\ UNCHANGED <<run, lines, spared, trail, active, req>>

\* ComputeBulk refuses a sealed run; in the end the task is given up.
GiveUp(r) ==
    /\ queue[r] > 0
    /\ IsSealed(r)
    /\ queue' = [queue EXCEPT ![r] = @ - 1]
    /\ UNCHANGED <<run, lines, spared, trail, active, req, worker>>

\* progressFn reports an error count of 0; a failure to do so is only logged.
ReportProgress(k) ==
    /\ worker[k].kind = "computing"
    /\ Write(worker[k].run, UpdateProgress(run[worker[k].run]))
    /\ UNCHANGED <<lines, spared, trail, active, req, queue, worker>>

\* The goroutine of one instrument: skip it if it has a line, else compute it
\* unless the run is sealed.
BeginInstrument(k, i) ==
    LET t == worker[k] IN
    /\ t.kind = "computing" /\ i \in t.todo
    /\ \/ /\ i \in lines[t.run]
          /\ Becomes(k, [t EXCEPT !.todo = @ \ {i}])
       \/ /\ i \notin lines[t.run] /\ ~IsSealed(t.run)
          /\ Becomes(k, [t EXCEPT !.todo = @ \ {i}, !.busy = @ \cup {i}])
    /\ UNCHANGED <<run, lines, spared, trail, active, req, queue>>

PersistInstrument(k, i) ==
    LET t == worker[k] IN
    /\ t.kind = "computing" /\ i \in t.busy
    /\ \/ /\ i \in Lineless
          /\ spared' = [spared EXCEPT ![t.run] = @ \cup {i}]
          /\ UNCHANGED lines
       \/ InsertResultLine(t.run, i) /\ UNCHANGED spared
    /\ Becomes(k, [t EXCEPT !.busy = @ \ {i}])
    /\ UNCHANGED <<run, trail, active, req, queue>>

\* Any error of the computation or the database concerns one instrument.
FailInstrument(k, i) ==
    LET t == worker[k] IN
    /\ t.kind = "computing" /\ i \in t.todo \cup t.busy
    /\ Becomes(k, [t EXCEPT !.todo = @ \ {i}, !.busy = @ \ {i}, !.failed = TRUE])
    /\ UNCHANGED <<run, lines, spared, trail, active, req, queue>>

\* The context of the task ends: no further goroutine is started.
EndContext(k) ==
    LET t == worker[k] IN
    /\ t.kind = "computing" /\ t.todo # {}
    /\ Becomes(k, [t EXCEPT !.todo = {}, !.stopped = TRUE])
    /\ UNCHANGED <<run, lines, spared, trail, active, req, queue>>

\* ComputeBulk returns.  "cancelled" ends the task and leaves the run as it is;
\* otherwise MarkCompleted reads the run and leaves a cancelled one alone.
FinishBulk(k) ==
    LET t == worker[k] IN
    /\ t.kind = "computing" /\ t.todo = {} /\ t.busy = {}
    /\ \/ /\ t.stopped \/ run[t.run].status = "CANCELLED"
          /\ Becomes(k, Idle)
       \/ /\ ~t.stopped /\ run[t.run].status # "CANCELLED"
          /\ Becomes(k, [t EXCEPT !.kind = "marking"])
    /\ UNCHANGED <<run, lines, spared, trail, active, req, queue>>

\* The transaction of MarkCompleted; the worker may die before it acknowledges.
MarkCompleted(k) ==
    LET t == worker[k] IN
    /\ t.kind = "marking"
    /\ Write(t.run, UpdateCompletion(run[t.run], t.failed))
    /\ Redeliver(t.run)
    /\ Becomes(k, Idle)
    /\ UNCHANGED <<lines, spared, trail, active, req>>

\* An error of MarkCompleted is not fatal to the task, so it ends; an error of
\* ComputeBulk or the death of the worker may bring it back.
Abandon(k) ==
    LET t == worker[k] IN
    /\ t # Idle
    /\ Redeliver(t.run)
    /\ Becomes(k, Idle)
    /\ UNCHANGED <<run, lines, spared, trail, active, req>>

-----------------------------------------------------------------------------
(* What the instrument module does meanwhile.                              *)

ActivateInstrument(i) ==
    /\ i \notin active
    /\ active' = active \cup {i}
    /\ UNCHANGED <<run, lines, spared, trail, req, queue, worker>>

DeactivateInstrument(i) ==
    /\ i \in active \ Book
    /\ active' = active \ {i}
    /\ UNCHANGED <<run, lines, spared, trail, req, queue, worker>>

Next ==
    \/ \E q \in Requests :
         \/ \E r \in Runs :
              \/ \E u \in Users, p \in Periodes : LoadCreate(q, r, u, p)
              \/ \E op \in Operations, u \in Users : LoadOp(q, op, r, u)
              \/ \E i \in Instruments : LoadCompute(q, r, i)
         \/ CommitCreate(q)
         \/ CommitStart(q)
         \/ CommitCancel(q)
         \/ CommitRequestSeal(q)
         \/ CommitApproveSeal(q)
         \/ CommitRejectSeal(q)
         \/ CommitCompute(q)
         \/ Fail(q)
    \/ \E k \in Workers :
         \/ \E r \in Runs : PickUp(k, r)
         \/ \E i \in Instruments :
              BeginInstrument(k, i) \/ PersistInstrument(k, i) \/ FailInstrument(k, i)
         \/ ReportProgress(k)
         \/ EndContext(k)
         \/ FinishBulk(k)
         \/ MarkCompleted(k)
         \/ Abandon(k)
    \/ \E r \in Runs : GiveUp(r)
    \/ \E i \in Instruments : ActivateInstrument(i) \/ DeactivateInstrument(i)

Spec == Init /\ [][Next]_vars

-----------------------------------------------------------------------------
(* Properties.                                                             *)

\* Every column, line, event, request and task stays in its type.
TypeOK ==
    /\ run \in [Runs -> {Absent} \cup RowType]
    /\ lines \in [Runs -> SUBSET Instruments]
    /\ spared \in [Runs -> SUBSET Lineless]
    /\ trail \in [Runs -> SUBSET Users]
    /\ active \in SUBSET Instruments
    /\ req \in [Requests -> RequestType]
    /\ queue \in [Runs -> Nat]
    /\ worker \in [Workers -> {Idle} \cup TaskType]

\* However approvals, rejections and new requests overtake one another, whoever
\* sealed a run neither created it nor is the one its row says asked for the seal.
SealSoD ==
    \A r \in Runs : IsSealed(r) => run[r].sealer \notin {run[r].creator, run[r].requester}

\* A rejection that overtakes an approval leaves no requester in a sealed row, so
\* the row alone cannot show four eyes; but the audit trail always names somebody
\* other than the sealer who asked for the seal.
FourEyesSeal ==
    \A r \in Runs : IsSealed(r) => trail[r] \ {run[r].sealer} # {}

\* Of a run that may be sealed, and of a sealed one, no failure is forgotten:
\* every instrument that was active all along has a line or was computed to need
\* none, and the parameters were frozen, whatever failed, was retried or was
\* computed twice.
SealedRunComplete ==
    \A r \in Runs :
        Exists(r) /\ run[r].status \in {"COMPLETED", "SEAL_REQUESTED", "SEALED"} =>
            Book \subseteq lines[r] \cup spared[r] /\ run[r].snapshot

\* Nothing changes a sealed run: no stale request, late worker or redelivered task.
SealedRunFrozen == [][\A r \in Runs : IsSealed(r) => run'[r] = run[r]]_vars

\* "Terminal states: SEALED, CANCELLED - no further transitions allowed" (the
\* state machine document of the calculation run): what the code does refutes it.
CancelledIsTerminal ==
    [][\A r \in Runs : Exists(r) /\ run[r].status = "CANCELLED" =>
            run'[r].status = "CANCELLED"]_vars

\* "NO other SEALED run for the same periode": refuted too.
OneSealedPerPeriode ==
    \A r, s \in Runs : IsSealed(r) /\ IsSealed(s) /\ run[r].periode = run[s].periode => r = s

=============================================================================
